---------------------------- MODULE Spec2Model ----------------------------
(***************************************************************************)
(* A model of the IR core of hardekbc/260-public: the tokenizer            *)
(* (util/tokenizer.h), the type algebra, the textual parser                *)
(* (FromStringHelper), the pretty-printer (ToStringVisitor), the verifier  *)
(* (VerifyVisitor) and the traversal framework (ir.cc, ir.h).              *)
(*                                                                         *)
(* C++ strings are TLA+ strings; positions are 0-based as in the source    *)
(* and string::npos is Npos.  A fatal CHECK/LOG(FATAL) is a result with    *)
(* ok = FALSE.  A shared_ptr<const Variable> is a record whose id field is *)
(* the identity of the pointed-to object.                                  *)
(***************************************************************************)
EXTENDS Integers, Sequences, FiniteSets, TLC

VARIABLES
  pc,          \* position of the scenario being run
  ty,          \* SpecType: the type given to Type::ToString
  ty_str,      \* SpecType: the result of Type::ToString
  ty_read,     \* SpecType: the result of Type::FromString
  build_rtl,   \* Spec: the build evaluates call arguments right to left
  built,       \* Spec, SpecVisit: the result of the Program constructor
  printed,     \* Spec: the text given to FromString
  parsed,      \* Spec: the result of FromString
  reprinted,   \* Spec: ToString of the parsed program
  pending,     \* SpecVisit: the callbacks the traversal has yet to make
  order_,      \* SpecVisit: the callbacks the visitor has received
  held_blocks, \* SpecObjects: the BasicBlock objects the caller holds
  held_funs,   \* SpecObjects: the Function objects the caller holds
  held_insts,  \* SpecObjects: the Instruction objects outside any body
  got_index,   \* SpecObjects: the last call of GetIndex and its result
  allocated,   \* SpecObjects: the number of objects made so far
  builder,     \* SpecBuilder: the members of the ir::Builder
  call_log,    \* SpecBuilder: the calls made on the builder, in order
  tkz,         \* SpecTokenizer: the members of the util::Tokenizer
  tk_input,    \* SpecTokenizer: the arguments of its constructor
  tk_call,     \* SpecTokenizer: the last call, its result, the state before
  tsv,         \* SpecPrinter: the members of the ToStringVisitor
  strings,     \* SpecPrinter: what the calls of GetString returned, in order
  dbg_out,     \* SpecDebug: the lines the DebugVisitor wrote to its stream
  analysis     \* SpecAnalysis: the function analyzed and the result

objectVars == <<held_blocks, held_funs, held_insts, got_index, allocated>>
builderVars == <<builder, call_log>>
tokenVars == <<tkz, tk_input, tk_call>>

toolVars == <<tsv, strings, dbg_out, analysis>>

\* the variables of the specifications of single classes
unitVars == <<objectVars, builderVars, tokenVars, toolVars>>

vars == <<pc, ty, ty_str, ty_read, build_rtl, built, printed, parsed, reprinted,
          pending, order_, unitVars>>

typeVars == <<ty, ty_str, ty_read>>
pipeVars == <<build_rtl, built, printed, parsed, reprinted>>
visitVars == <<pending, order_>>
restVars == <<visitVars, toolVars>>

(***************************************************************************)
(* std::string helpers                                                     *)
(***************************************************************************)
Npos == -1

Char(s, i) == SubSeq(s, i + 1, i + 1)

\* s.substr(pos, n), where n = Npos (or anything past the end) runs to the end
Substr(s, pos, n) ==
  IF n = Npos \/ pos + n > Len(s) THEN SubSeq(s, pos + 1, Len(s))
  ELSE SubSeq(s, pos + 1, pos + n)

SubstrFrom(s, pos) == SubSeq(s, pos + 1, Len(s))

RECURSIVE Find(_, _, _)
Find(s, pat, from) ==
  IF from + Len(pat) > Len(s) THEN Npos
  ELSE IF SubSeq(s, from + 1, from + Len(pat)) = pat THEN from
  ELSE Find(s, pat, from + 1)

RECURSIVE FindFirstOf(_, _, _)
FindFirstOf(s, chars, from) ==
  IF from >= Len(s) THEN Npos
  ELSE IF Char(s, from) \in chars THEN from
  ELSE FindFirstOf(s, chars, from + 1)

RECURSIVE FindFirstNotOf(_, _, _)
FindFirstNotOf(s, chars, from) ==
  IF from >= Len(s) THEN Npos
  ELSE IF Char(s, from) \notin chars THEN from
  ELSE FindFirstNotOf(s, chars, from + 1)

RECURSIVE CountChar(_, _)
CountChar(s, c) ==
  IF s = "" THEN 0
  ELSE (IF Head(s) = c THEN 1 ELSE 0) + CountChar(Tail(s), c)

\* the characters of the execution character set the model uses, in code order
AsciiLow == " !\"#$%&'()*+,-./0123456789:;<=>?@ABCDEFGHIJKLMNOPQRSTUVWXYZ[\\]^_"
AsciiHigh == "abcdefghijklmnopqrstuvwxyz{|}~"

CharCode(c) ==
  IF c = "\n" THEN 10
  ELSE IF Find(AsciiLow, c, 0) # Npos THEN 32 + Find(AsciiLow, c, 0)
  ELSE 97 + Find(AsciiHigh, c, 0)

\* std::string operator<
RECURSIVE StrLess(_, _)
StrLess(a, b) ==
  IF b = "" THEN FALSE
  ELSE IF a = "" THEN TRUE
  ELSE IF Head(a) = Head(b) THEN StrLess(Tail(a), Tail(b))
  ELSE CharCode(Head(a)) < CharCode(Head(b))

StrLeq(a, b) == a = b \/ StrLess(a, b)

\* the keys of a std::map / std::set of strings in iteration order
RECURSIVE SortedKeys(_)

\* the keys of S in order, first being the least of them
KeysFrom(S, first) == <<first>> \o SortedKeys(S \ {first})

SortedKeys(S) ==
  IF S = {} THEN <<>>
  ELSE KeysFrom(S, CHOOSE x \in S : \A y \in S : StrLeq(x, y))

RECURSIVE Join(_, _)
Join(strs, sep) ==
  IF strs = <<>> THEN ""
  ELSE IF Len(strs) = 1 THEN strs[1]
  ELSE strs[1] \o sep \o Join(Tail(strs), sep)

RECURSIVE Repeat(_, _)
Repeat(c, n) == IF n <= 0 THEN "" ELSE c \o Repeat(c, n - 1)

Reverse(q) == [i \in 1..Len(q) |-> q[Len(q) + 1 - i]]

PopBack(q) == SubSeq(q, 1, Len(q) - 1)
Back(q) == q[Len(q)]

(***************************************************************************)
(* util::Tokenizer.  tokens_ is kept as in the source: reversed, the next  *)
(* token of the input is the last element.                                 *)
(***************************************************************************)

\* find_min of DelimitAndAddTokens, given the first position "at" of each
\* delimiter in the token (Npos when absent): the loop runs over delimiters_
\* (a std::set, so in string order) and keeps the first minimum position.
FindMinAt(at) ==
  IF \A d \in DOMAIN at : at[d] = Npos THEN <<Npos, 0>>
  ELSE LET d == CHOOSE d \in DOMAIN at :
                  /\ at[d] # Npos
                  /\ \A o \in DOMAIN at :
                       \/ at[o] = Npos
                       \/ at[d] < at[o]
                       \/ at[d] = at[o] /\ StrLeq(d, o)
       IN <<at[d], Len(d)>>

FindMin(token, delimiters) ==
  FindMinAt([d \in delimiters |-> Find(token, d, 0)])

RECURSIVE DelimitLoop(_, _, _)

\* one round of "while (true)", for the result found of find_min(token)
DelimitRound(tokens, token, delimiters, found) ==
  IF found[1] = Npos
  THEN (IF token # "" THEN Append(tokens, token) ELSE tokens)
  ELSE DelimitLoop(
         Append(IF found[1] # 0
                THEN Append(tokens, Substr(token, 0, found[1]))
                ELSE tokens,
                Substr(token, found[1], found[2])),
         SubstrFrom(token, found[1] + found[2]), delimiters)

DelimitLoop(tokens, token, delimiters) ==
  DelimitRound(tokens, token, delimiters, FindMin(token, delimiters))

\* [ok, tokens]; ok = FALSE is the fatal CHECK_NE(token, "")
DelimitAndAddTokens(tokens, str, delimiters) ==
  IF str = "" THEN [ok |-> FALSE, tokens |-> tokens]
  ELSE [ok |-> TRUE, tokens |-> DelimitLoop(tokens, str, delimiters)]

RECURSIVE TokenizeLoop(_, _, _, _, _, _)

\* the end of one round of the loop of Tokenize, after DelimitAndAddTokens
\* gave added
TokenizeNext(added, str, space, delimiters, start, end) ==
  IF ~added.ok THEN added
  ELSE TokenizeLoop(added.tokens, str, space, delimiters,
                    IF end # Npos THEN FindFirstNotOf(str, space, end)
                    ELSE start,
                    end)

\* one round of the loop of Tokenize, for end = str.find_first_of(space, start)
TokenizeRound(tokens, str, space, delimiters, start, end) ==
  TokenizeNext(
    DelimitAndAddTokens(
      tokens, Substr(str, start, IF end = Npos THEN Npos ELSE end - start),
      delimiters),
    str, space, delimiters, start, end)

TokenizeLoop(tokens, str, space, delimiters, start, end) ==
  IF start = Npos \/ end = Npos THEN [ok |-> TRUE, tokens |-> tokens]
  ELSE TokenizeRound(tokens, str, space, delimiters, start,
                     FindFirstOf(str, space, start))

Tokenize(tokens, str, whitespace, delimiters) ==
  TokenizeLoop(tokens, str, whitespace \ {"\n"}, delimiters,
               FindFirstNotOf(str, whitespace \ {"\n"}, 0), 0)

RECURSIVE RawLoop(_, _, _, _, _, _, _, _)

\* RawRegion with the payload tokenized like the text around it
RawRegionCut(before, input, whitespace, delimiters, left, right, start, end) ==
  IF ~before.ok THEN before
  ELSE IF end = Npos THEN [ok |-> FALSE, tokens |-> before.tokens]
  ELSE RawLoop(Append(Tokenize(Append(before.tokens, left),
                               Substr(input, start, end - start),
                               whitespace, delimiters).tokens, right),
               input, whitespace, delimiters, left, right,
               Find(input, left, end + Len(right)), end + Len(right))

\* one raw region: the text before it was tokenized (before), the region
\* starts at start and its right delimiter is found at end (Npos: the fatal
\* CHECK_NE(end, string::npos))
RawRegion(before, input, whitespace, delimiters, left, right, start, end) ==
  IF ~before.ok THEN before
  ELSE IF end = Npos THEN [ok |-> FALSE, tokens |-> before.tokens]
  ELSE RawLoop(Append(Append(Append(before.tokens, left),
                             Substr(input, start, end - start)), right),
               input, whitespace, delimiters, left, right,
               Find(input, left, end + Len(right)), end + Len(right))

\* the raw-region loop of the constructor
RawLoop(tokens, input, whitespace, delimiters, left, right, start, end) ==
  IF start = Npos
  THEN Tokenize(tokens, SubstrFrom(input, end), whitespace, delimiters)
  ELSE RawRegion(Tokenize(tokens, Substr(input, end, start - end),
                          whitespace, delimiters),
                 input, whitespace, delimiters, left, right,
                 start + Len(left), Find(input, right, start + Len(left)))

\* the members after the constructor has tokenized the input into tokenized
Members(tokenized, whitespace, delimiters, reserved_words) ==
  [ok |-> tokenized.ok,
   tk |-> [tokens_ |-> Reverse(tokenized.tokens),
           line_number_ |-> 1,
           delimiters_ |-> delimiters,
           reserved_words_ |-> reserved_words,
           newline_is_whitespace_ |-> "\n" \in whitespace]]

\* Tokenizer::Tokenizer; raw is <<>> (nullopt) or <<left, right>>
Tokenizer(input, whitespace, delimiters, reserved_words, raw) ==
  IF raw = <<>>
  THEN Members(Tokenize(<<>>, input, whitespace, delimiters \cup {"\n"}),
               whitespace, delimiters \cup {"\n"}, reserved_words)
  ELSE Members(RawLoop(<<>>, input, whitespace,
                       delimiters \cup {"\n", raw[1], raw[2]},
                       raw[1], raw[2], Find(input, raw[1], 0), 0),
               whitespace, delimiters \cup {"\n", raw[1], raw[2]},
               reserved_words)

RECURSIVE SkipNewlines(_)
SkipNewlines(tk) ==
  IF tk.tokens_ # <<>> /\ Back(tk.tokens_) = "\n"
  THEN SkipNewlines([tk EXCEPT !.line_number_ = @ + 1,
                               !.tokens_ = PopBack(@)])
  ELSE tk

\* tokens_.back(), or "" when tokens_ is empty
NextOf(tk) ==
  [tk |-> tk, val |-> IF tk.tokens_ = <<>> THEN "" ELSE Back(tk.tokens_)]

\* ReturnNextToken without the line_number_++ of its loop
ReturnNextTokenUncounted(tk) ==
  IF tk.newline_is_whitespace_
  THEN NextOf([SkipNewlines(tk) EXCEPT !.line_number_ = tk.line_number_])
  ELSE NextOf(tk)

ReturnNextToken(tk) ==
  IF tk.newline_is_whitespace_ THEN NextOf(SkipNewlines(tk)) ELSE NextOf(tk)

\* ConsumeNextToken after its call of ReturnNextToken gave next
PopNext(next) ==
  IF next.val = "" THEN [ok |-> FALSE, tk |-> next.tk, val |-> ""]
  ELSE [ok |-> TRUE,
        tk |-> [next.tk EXCEPT
                  !.line_number_ = IF next.val = "\n" THEN @ + 1 ELSE @,
                  !.tokens_ = PopBack(@)],
        val |-> next.val]

ConsumeNextToken(tk) == PopNext(ReturnNextToken(tk))

\* CHECK_EQ(token, str) on the token consumed
CheckIs(consumed, str) ==
  [consumed EXCEPT !.ok = @ /\ consumed.val = str]

Consume(tk, str) == CheckIs(ConsumeNextToken(tk), str)

\* QueryConsume after its call of ReturnNextToken gave next
ConsumeIfIs(next, str) ==
  IF next.val = str THEN [PopNext(next) EXCEPT !.val = TRUE]
  ELSE [ok |-> TRUE, tk |-> next.tk, val |-> FALSE]

QueryConsume(tk, str) == ConsumeIfIs(ReturnNextToken(tk), str)

NextIs(next, str) == [ok |-> TRUE, tk |-> next.tk, val |-> next.val = str]

QueryNoConsume(tk, str) == NextIs(ReturnNextToken(tk), str)

\* CHECK(!delimiters_.count(token) && !reserved_words_.count(token))
CheckIsToken(consumed) ==
  [consumed EXCEPT !.ok = /\ @
                          /\ consumed.val \notin consumed.tk.delimiters_
                          /\ consumed.val \notin consumed.tk.reserved_words_]

ConsumeToken(tk) == CheckIsToken(ConsumeNextToken(tk))

ConsumeRaw(tk) ==
  IF tk.tokens_ = <<>> THEN [ok |-> FALSE, tk |-> tk, val |-> ""]
  ELSE [ok |-> TRUE,
        tk |-> [tk EXCEPT
                  !.line_number_ = @ + CountChar(Back(tk.tokens_), "\n"),
                  !.tokens_ = PopBack(@)],
        val |-> Back(tk.tokens_)]

\* ConsumeChar after its call of ReturnNextToken gave next
TakeChar(next) ==
  IF next.val = "" THEN [ok |-> FALSE, tk |-> next.tk, val |-> ""]
  ELSE IF Char(next.val, 0) \in next.tk.delimiters_
          \/ Char(next.val, 0) \in next.tk.reserved_words_
  THEN [ok |-> FALSE, tk |-> next.tk, val |-> Char(next.val, 0)]
  ELSE [ok |-> TRUE,
        tk |-> [next.tk EXCEPT !.tokens_ =
                  IF Len(next.val) > 1
                  THEN Append(PopBack(@), SubstrFrom(next.val, 1))
                  ELSE PopBack(@)],
        val |-> Char(next.val, 0)]

ConsumeChar(tk) == TakeChar(ReturnNextToken(tk))

Put(tk, token) == [tk EXCEPT !.tokens_ = Append(@, token)]

RECURSIVE PeekSkip(_, _)
PeekSkip(tk, idx) ==
  IF tk.newline_is_whitespace_ /\ idx >= 1 /\ tk.tokens_[idx] = "\n"
  THEN PeekSkip(tk, idx - 1)
  ELSE idx

RECURSIVE PeekIdx(_, _, _)
PeekIdx(tk, idx, ahead) ==
  IF ahead = 0 THEN idx ELSE PeekIdx(tk, PeekSkip(tk, idx - 1), ahead - 1)

TokenAt(tk, idx) == IF idx < 1 THEN "" ELSE tk.tokens_[idx]

Peek(tk, ahead) ==
  TokenAt(tk, PeekIdx(tk, PeekSkip(tk, Len(tk.tokens_)), ahead))

IsReserved(tk, token) ==
  token \in tk.delimiters_ \/ token \in tk.reserved_words_

IsNextReserved(tk) == IsReserved(tk, Peek(tk, 0))

NextIsEnd(next) == [tk |-> next.tk, val |-> next.val = ""]

EndOfInput(tk) == NextIsEnd(ReturnNextToken(tk))

(***************************************************************************)
(* ir::Type                                                                *)
(***************************************************************************)
IntType == [indirection_ |-> 0, base |-> "kInt", name |-> "", types |-> <<>>]
Struct(n) == [indirection_ |-> 0, base |-> "kStruct", name |-> n,
              types |-> <<>>]
FunctionType(ts) == [indirection_ |-> 0, base |-> "kFunc", name |-> "",
                     types |-> ts]
PtrTo(t) == [t EXCEPT !.indirection_ = @ + 1]
Deref(t) == [t EXCEPT !.indirection_ = @ - 1]
IsInt(t) == t.indirection_ = 0 /\ t.base = "kInt"
IsPtr(t) == t.indirection_ > 0
IsStructPtr(t) == t.indirection_ = 1 /\ t.base = "kStruct"
IsFunctionPtr(t) == t.indirection_ = 1 /\ t.base = "kFunc"

RECURSIVE TypeToString(_)
TypeStrs(ts) == [i \in 1..Len(ts) |-> TypeToString(ts[i])]

TypeToString(t) ==
  CASE t.base = "kInt" -> "int" \o Repeat("*", t.indirection_)
    [] t.base = "kStruct" -> t.name \o Repeat("*", t.indirection_)
    [] t.base = "kFunc" ->
         LET type_strs == TypeStrs(t.types)
         IN type_strs[1] \o "[" \o Join(Tail(type_strs), ",") \o "]"
            \o Repeat("*", t.indirection_)

\* a step of ReadType after a fatal CHECK of the tokenizer
NoTypeRead(failed) == [ok |-> FALSE, tk |-> failed.tk, val |-> IntType]

RECURSIVE ReadStars(_, _)

\* one test of "while (tk.QueryConsume("*")) type = type.PtrTo();"
StarsAfterQuery(star, type) ==
  IF star.ok /\ star.val THEN ReadStars(star.tk, PtrTo(type))
  ELSE [ok |-> star.ok, tk |-> star.tk, val |-> type]

ReadStars(tk, type) == StarsAfterQuery(QueryConsume(tk, "*"), type)

RECURSIVE ReadType(_)
RECURSIVE ReadTypeList(_, _)

\* "if (!tk.QueryNoConsume("]")) tk.Consume(",");" after the query
ListSeparator(closing) ==
  IF closing.val THEN closing ELSE Consume(closing.tk, ",")

ListAfterSeparator(separator, types) ==
  IF ~separator.ok THEN NoTypeRead(separator)
  ELSE ReadTypeList(separator.tk, types)

\* "types.push_back(ReadType(tk));" and the separator
ListAfterType(type, types) ==
  IF ~type.ok THEN NoTypeRead(type)
  ELSE ListAfterSeparator(ListSeparator(QueryNoConsume(type.tk, "]")),
                          Append(types, type.val))

\* one test of "while (!tk.QueryConsume("]"))"
ListAfterQuery(closed, types) ==
  IF ~closed.ok THEN NoTypeRead(closed)
  ELSE IF closed.val THEN [ok |-> TRUE, tk |-> closed.tk, val |-> types]
  ELSE ListAfterType(ReadType(closed.tk), types)

ReadTypeList(tk, types) == ListAfterQuery(QueryConsume(tk, "]"), types)

\* "type = Type::Function(types);" and the stars after it
TypeAfterList(types) ==
  IF ~types.ok THEN NoTypeRead(types)
  ELSE ReadStars(types.tk, FunctionType(types.val))

\* "if (tk.QueryConsume("[")) { types.push_back(type); ... }"
TypeAfterBracket(bracket, type) ==
  IF ~bracket.ok THEN NoTypeRead(bracket)
  ELSE IF ~bracket.val THEN [ok |-> TRUE, tk |-> bracket.tk, val |-> type]
  ELSE TypeAfterList(ReadTypeList(bracket.tk, <<type>>))

TypeAfterStars(type) ==
  IF ~type.ok THEN NoTypeRead(type)
  ELSE TypeAfterBracket(QueryConsume(type.tk, "["), type.val)

\* "Type type = (type_str == "int") ? Type::Int() : Type::Struct(type_str);"
TypeAfterName(type_str) ==
  IF ~type_str.ok THEN NoTypeRead(type_str)
  ELSE TypeAfterStars(
         ReadStars(type_str.tk, IF type_str.val = "int" THEN IntType
                                ELSE Struct(type_str.val)))

ReadType(tk) == TypeAfterName(ConsumeToken(tk))

\* Type::FromString after the tokenizer was constructed
TypeRead(type) == [ok |-> type.ok, val |-> type.val]

TypeOfTokens(tokenizer) ==
  IF ~tokenizer.ok THEN [ok |-> FALSE, val |-> IntType]
  ELSE TypeRead(ReadType(tokenizer.tk))

TypeFromString(type) ==
  TypeOfTokens(Tokenizer(type, {}, {"[", "]", ",", "*"}, {}, <<>>))

(***************************************************************************)
(* ir::Variable, ir::Operand and the fifteen instruction classes (ir.h)    *)
(***************************************************************************)
NullPtr == "nullptr"

\* a VarPtr_t: id is the identity of the Variable object
Variable(id, name, type) == [id |-> id, name |-> name, type |-> type]
NullVar == Variable(0, "", IntType)

VarOperand(var) == [is_var |-> TRUE, var |-> var, int |-> 0]
IntOperand(value) == [is_var |-> FALSE, var |-> NullVar, int |-> value]
GetType(op) == IF op.is_var THEN op.var.type ELSE IntType

RECURSIVE NatToString(_)
NatToString(n) ==
  IF n < 10 THEN Char("0123456789", n)
  ELSE NatToString(n \div 10) \o Char("0123456789", n % 10)

\* std::to_string(int)
IntToString(n) == IF n < 0 THEN "-" \o NatToString(-n) ELSE NatToString(n)

VariableToString(var) == var.name \o ":" \o TypeToString(var.type)
OperandToString(op) ==
  IF op.is_var THEN VariableToString(op.var) ELSE IntToString(op.int)

ArithInst(lhs, op1, op2, operation) ==
  [op |-> "kArith", lhs |-> lhs, op1 |-> op1, op2 |-> op2,
   operation |-> operation]
CmpInst(lhs, op1, op2, operation) ==
  [op |-> "kCmp", lhs |-> lhs, op1 |-> op1, op2 |-> op2,
   operation |-> operation]
PhiInst(lhs, ops) == [op |-> "kPhi", lhs |-> lhs, ops |-> ops]
CopyInst(lhs, rhs) == [op |-> "kCopy", lhs |-> lhs, rhs |-> rhs]
AllocInst(lhs) == [op |-> "kAlloc", lhs |-> lhs]
AddrOfInst(lhs, rhs) == [op |-> "kAddrof", lhs |-> lhs, rhs |-> rhs]
LoadInst(lhs, src) == [op |-> "kLoad", lhs |-> lhs, src |-> src]
StoreInst(dst, value) == [op |-> "kStore", dst |-> dst, value |-> value]
GepInst(lhs, src_ptr, index, field_name) ==
  [op |-> "kGep", lhs |-> lhs, src_ptr |-> src_ptr, index |-> index,
   field_name |-> field_name]
SelectInst(lhs, condition, true_op, false_op) ==
  [op |-> "kSelect", lhs |-> lhs, condition |-> condition,
   true_op |-> true_op, false_op |-> false_op]
CallInst(lhs, callee, args) ==
  [op |-> "kCall", lhs |-> lhs, callee |-> callee, args |-> args]
ICallInst(lhs, func_ptr, args) ==
  [op |-> "kICall", lhs |-> lhs, func_ptr |-> func_ptr, args |-> args]
RetInst(retval) == [op |-> "kRet", retval |-> retval]
JumpInst(label) == [op |-> "kJump", label |-> label]
BranchInst(condition, label_true, label_false) ==
  [op |-> "kBranch", condition |-> condition, label_true |-> label_true,
   label_false |-> label_false]

\* ir::Instruction: the variant inst_, the parent pointer, and (self) the
\* address of the object itself
Instruction(inst, parent, self) ==
  [inst_ |-> inst, parent_ |-> parent, self |-> self]

GetOpcode(inst) == inst.inst_.op

IsTerminator(opcode) == opcode \in {"kRet", "kJump", "kBranch"}

(***************************************************************************)
(* BasicBlock, Function (constructors and copy constructors)               *)
(***************************************************************************)
\* the address of body_[i] of the block at address bb
ElementAddr(bb, i) == bb \o "#" \o IntToString(i)

\* a variant that copies the instructions as they are, parent included
ReparentKept(body, this) ==
  [i \in 1..Len(body) |->
     Instruction(body[i].inst_, body[i].parent_, ElementAddr(this, i - 1))]

\* "for (inst : body) body_.emplace_back(inst, this);"
Reparent(body, this) ==
  [i \in 1..Len(body) |->
     Instruction(body[i].inst_, this, ElementAddr(this, i - 1))]

\* BasicBlock::BasicBlock(label, body, parent), constructed at address self
BasicBlock(label, body, parent, self) ==
  [ok |-> label # "" /\ body # <<>>,
   val |-> [label_ |-> label, body_ |-> Reparent(body, self),
            parent_ |-> parent, self |-> self]]

\* BasicBlock::BasicBlock(const BasicBlock&), constructed at address self
BasicBlockCopy(bb, self) ==
  [label_ |-> bb.label_, body_ |-> Reparent(bb.body_, self),
   parent_ |-> bb.parent_, self |-> self]

Labels(body) == {body[i].label_ : i \in 1..Len(body)}

\* the address of the block make_shared creates for a function at self
BlockAddr(self, label) == self \o "/" \o label

\* Function::Function(name, return_type, parameters, body), at address self
Function(name, return_type, parameters, body, self) ==
  [ok |-> /\ name # ""
          /\ body # <<>>
          /\ \A i, j \in 1..Len(body) :
               body[i].label_ = body[j].label_ => i = j,
   val |-> [name_ |-> name, return_type_ |-> return_type,
            parameters_ |-> parameters,
            body_ |-> [l \in Labels(body) |->
                         LET block == body[CHOOSE i \in 1..Len(body) :
                                             body[i].label_ = l]
                         IN BasicBlock(block.label_, block.body_, self,
                                       BlockAddr(self, l)).val],
            self |-> self]]

\* Function::Function(const Function&), at address self
FunctionCopy(func, self) ==
  [name_ |-> func.name_, return_type_ |-> func.return_type_,
   parameters_ |-> func.parameters_,
   body_ |-> [l \in DOMAIN func.body_ |->
                BasicBlock(l, func.body_[l].body_, self,
                           BlockAddr(self, l)).val],
   self |-> self]

(***************************************************************************)
(* Visit: the calls a traversal makes on its IrVisitor, in order           *)
(***************************************************************************)
Call(cb, kind, arg) == [cb |-> cb, kind |-> kind, arg |-> arg]

\* the VisitInst overload the switch of Instruction::Visit selects
KindOf(opcode) ==
  CASE opcode = "kArith" -> "ArithInst"
    [] opcode = "kCmp" -> "CmpInst"
    [] opcode = "kPhi" -> "PhiInst"
    [] opcode = "kCopy" -> "CopyInst"
    [] opcode = "kAlloc" -> "AllocInst"
    [] opcode = "kAddrof" -> "AddrOfInst"
    [] opcode = "kLoad" -> "LoadInst"
    [] opcode = "kStore" -> "StoreInst"
    [] opcode = "kGep" -> "GepInst"
    [] opcode = "kSelect" -> "SelectInst"
    [] opcode = "kCall" -> "CallInst"
    [] opcode = "kICall" -> "ICallInst"
    [] opcode = "kRet" -> "RetInst"
    [] opcode = "kJump" -> "JumpInst"
    [] opcode = "kBranch" -> "BranchInst"

\* a variant of Instruction::Visit that makes the kind-specific call first
InstructionVisitKindFirst(inst) ==
  << Call("VisitInst", KindOf(GetOpcode(inst)), inst),
     Call("VisitInst", "Instruction", inst),
     Call("VisitInstPost", "Instruction", inst) >>

InstructionVisit(inst) ==
  << Call("VisitInst", "Instruction", inst),
     Call("VisitInst", KindOf(GetOpcode(inst)), inst),
     Call("VisitInstPost", "Instruction", inst) >>

RECURSIVE Flatten(_)
Flatten(qs) == IF qs = <<>> THEN <<>> ELSE Head(qs) \o Flatten(Tail(qs))

\* a variant of BasicBlock::Visit that makes the post call before the
\* instructions are visited
BasicBlockVisitPostFirst(bb) ==
  <<Call("VisitBasicBlock", "", bb), Call("VisitBasicBlockPost", "", bb)>>
  \o Flatten([i \in 1..Len(bb.body_) |-> InstructionVisit(bb.body_[i])])

BasicBlockVisit(bb) ==
  <<Call("VisitBasicBlock", "", bb)>>
  \o Flatten([i \in 1..Len(bb.body_) |-> InstructionVisit(bb.body_[i])])
  \o <<Call("VisitBasicBlockPost", "", bb)>>

FunctionVisit(func) ==
  LET labels == SortedKeys(DOMAIN func.body_)
  IN <<Call("VisitFunction", "", func)>>
     \o Flatten([i \in 1..Len(labels) |->
                   BasicBlockVisit(func.body_[labels[i]])])
     \o <<Call("VisitFunctionPost", "", func)>>

ProgramVisit(program) ==
  LET snames == SortedKeys(DOMAIN program.struct_types_)
      fnames == SortedKeys(DOMAIN program.functions_)
  IN <<Call("VisitProgram", "", program)>>
     \o [i \in 1..Len(snames) |->
           Call("VisitStructType", "",
                [name |-> snames[i],
                 elements |-> program.struct_types_[snames[i]]])]
     \o Flatten([i \in 1..Len(fnames) |->
                   FunctionVisit(program.functions_[fnames[i]])])
     \o <<Call("VisitProgramPost", "", program)>>

(***************************************************************************)
(* ToStringVisitor (ir_tostring_visitor.h)                                 *)
(***************************************************************************)
AopToStr(aop) ==
  CASE aop = "kAdd" -> "add" [] aop = "kSubtract" -> "sub"
    [] aop = "kMultiply" -> "mul" [] aop = "kDivide" -> "div"

RopToStr(rop) ==
  CASE rop = "kEqual" -> "eq" [] rop = "kNotEqual" -> "neq"
    [] rop = "kLessThan" -> "lt" [] rop = "kGreaterThan" -> "gt"
    [] rop = "kLessThanEqual" -> "lte" [] rop = "kGreaterThanEqual" -> "gte"

OperandStrs(ops) == [i \in 1..Len(ops) |-> OperandToString(ops[i])]

\* the text the kind-specific VisitInst overloads append to out_
ToStringVisitInst(indent_, i) ==
  CASE i.op = "kArith" ->
         indent_ \o VariableToString(i.lhs) \o " = $arith "
         \o AopToStr(i.operation) \o " " \o OperandToString(i.op1) \o " "
         \o OperandToString(i.op2) \o "\n"
    [] i.op = "kCmp" ->
         indent_ \o VariableToString(i.lhs) \o " = $cmp "
         \o RopToStr(i.operation) \o " " \o OperandToString(i.op1) \o " "
         \o OperandToString(i.op2) \o "\n"
    [] i.op = "kPhi" ->
         indent_ \o VariableToString(i.lhs) \o " = $phi("
         \o Join(OperandStrs(i.ops), ", ") \o ")" \o "\n"
    [] i.op = "kCopy" ->
         indent_ \o VariableToString(i.lhs) \o " = $copy "
         \o OperandToString(i.rhs) \o "\n"
    [] i.op = "kAlloc" ->
         indent_ \o VariableToString(i.lhs) \o " = $alloc" \o "\n"
    [] i.op = "kAddrof" ->
         indent_ \o VariableToString(i.lhs) \o " = $addrof "
         \o VariableToString(i.rhs) \o "\n"
    [] i.op = "kLoad" ->
         indent_ \o VariableToString(i.lhs) \o " = $load "
         \o VariableToString(i.src) \o "\n"
    [] i.op = "kStore" ->
         indent_ \o "$store " \o VariableToString(i.dst) \o " "
         \o OperandToString(i.value) \o "\n"
    [] i.op = "kGep" ->
         indent_ \o VariableToString(i.lhs) \o " = $gep "
         \o VariableToString(i.src_ptr) \o " " \o OperandToString(i.index)
         \o (IF i.field_name # "" THEN " " \o i.field_name ELSE "") \o "\n"
    [] i.op = "kSelect" ->
         indent_ \o VariableToString(i.lhs) \o " = $select "
         \o OperandToString(i.condition) \o " "
         \o OperandToString(i.true_op) \o " "
         \o OperandToString(i.false_op) \o "\n"
    [] i.op = "kCall" ->
         indent_ \o VariableToString(i.lhs) \o " = $call " \o i.callee
         \o "(" \o Join(OperandStrs(i.args), ", ") \o ")" \o "\n"
    [] i.op = "kICall" ->
         indent_ \o VariableToString(i.lhs) \o " = $icall "
         \o VariableToString(i.func_ptr)
         \o "(" \o Join(OperandStrs(i.args), ", ") \o ")" \o "\n"
    [] i.op = "kRet" ->
         indent_ \o "$ret " \o OperandToString(i.retval) \o "\n"
    [] i.op = "kJump" -> indent_ \o "$jump " \o i.label \o "\n"
    [] i.op = "kBranch" ->
         indent_ \o "$branch " \o OperandToString(i.condition) \o " "
         \o i.label_true \o " " \o i.label_false \o "\n"

\* ToStringVisitor::VisitProgram
ToStringStructs(struct_types) ==
  LET snames == SortedKeys(DOMAIN struct_types)
      Fields(n) ==
        LET fnames == SortedKeys(DOMAIN struct_types[n])
        IN Join([j \in 1..Len(fnames) |->
                   "  " \o fnames[j] \o ": "
                   \o TypeToString(struct_types[n][fnames[j]]) \o "\n"], "")
  IN Join([i \in 1..Len(snames) |->
             "struct " \o snames[i] \o " {" \o "\n" \o Fields(snames[i])
             \o "}" \o "\n" \o "\n"], "")

\* ToStringVisitor::VisitFunction
ToStringFunctionHeader(function) ==
  "function " \o function.name_ \o "("
  \o Join([i \in 1..Len(function.parameters_) |->
             VariableToString(function.parameters_[i])], ", ")
  \o ") -> " \o TypeToString(function.return_type_) \o " {"

\* one callback of ToStringVisitor; v = [out_, indent_]
ToStringVisitorCall(v, c) ==
  CASE c.cb = "VisitProgram" ->
         [v EXCEPT !.out_ = @ \o ToStringStructs(c.arg.struct_types_)]
    [] c.cb = "VisitFunction" ->
         [v EXCEPT !.out_ = @ \o ToStringFunctionHeader(c.arg)]
    [] c.cb = "VisitFunctionPost" ->
         [v EXCEPT !.out_ = @ \o "}" \o "\n" \o "\n"]
    [] c.cb = "VisitBasicBlock" ->
         [out_ |-> v.out_ \o "\n" \o c.arg.label_ \o ":" \o "\n",
          indent_ |-> "  "]
    [] c.cb = "VisitInst" /\ c.kind # "Instruction" ->
         [v EXCEPT !.out_ = @ \o ToStringVisitInst(v.indent_, c.arg.inst_)]
    [] OTHER -> v

RECURSIVE ToStringVisitorRun(_, _)
ToStringVisitorRun(v, calls) ==
  IF calls = <<>> \/ v.indent_ \notin {"", "  "} THEN v
  ELSE ToStringVisitorRun(ToStringVisitorCall(v, Head(calls)), Tail(calls))

NewToStringVisitor == [out_ |-> "", indent_ |-> ""]

InstructionToString(inst) ==
  ToStringVisitorRun(NewToStringVisitor, InstructionVisit(inst)).out_
BasicBlockToString(bb) ==
  ToStringVisitorRun(NewToStringVisitor, BasicBlockVisit(bb)).out_
FunctionToString(func) ==
  ToStringVisitorRun(NewToStringVisitor, FunctionVisit(func)).out_
ProgramToString(program) ==
  ToStringVisitorRun(NewToStringVisitor, ProgramVisit(program)).out_

(***************************************************************************)
(* VerifyVisitor and Program::VerifyIr                                     *)
(***************************************************************************)
IsGlobalName(name) == Char(name, 0) = "@"

\* a variant of the verifier that keeps the first message only
ErrFirstOnly(v, text) == IF v.err_ = "" THEN [v EXCEPT !.err_ = text] ELSE v

\* "err_ << text"
Err(v, text) == [v EXCEPT !.err_ = @ \o text]

ErrIf(v, cond, text) == IF cond THEN Err(v, text) ELSE v

\* "Instruction(inst).ToString()" of the messages
InstStr(i) == InstructionToString(Instruction(i, NullPtr, "tmp"))

ReportIfNonexistentStruct(v, program, type) ==
  IF /\ type.base = "kStruct"
     /\ type.name \notin DOMAIN program.struct_types_
     /\ type.name \notin v.nonexistent_structs_
  THEN [Err(v, "Type uses nonexistent struct: " \o TypeToString(type)
               \o "\n")
          EXCEPT !.nonexistent_structs_ = @ \cup {type.name}]
  ELSE v

ReportIfNotToplevelType(v, type) ==
  ErrIf(v, ~IsInt(type) /\ ~IsPtr(type),
        "Top-level types must be int or pointer: " \o TypeToString(type)
        \o "\n")

ReportIfUnassignable(v, var) ==
  ErrIf(v, IsGlobalName(var.name),
        "Variables starting with '@' are special and cannot be assigned "
        \o "to or stored into" \o "\n")

\* CheckIfGlobal(VarPtr_t)
CheckIfGlobalVar(v, program, var) ==
  IF ~IsGlobalName(var.name) \/ var.name = "@nullptr" THEN v
  ELSE LET fun_name == SubstrFrom(var.name, 1)
           v1 == ErrIf(v, fun_name \notin DOMAIN program.functions_,
                       "Global function pointer doesn't point to a real "
                       \o "function: " \o VariableToString(var) \o "\n")
       IN IF fun_name \in DOMAIN v1.func_ptrs_
          THEN ErrIf(v1, v1.func_ptrs_[fun_name] # var,
                     "Global function pointers for same function but "
                     \o "different VarPtr_t: " \o VariableToString(var)
                     \o " and " \o VariableToString(v1.func_ptrs_[fun_name])
                     \o "\n")
          ELSE [v1 EXCEPT !.func_ptrs_ =
                  [n \in DOMAIN @ \cup {fun_name} |->
                     IF n = fun_name THEN var ELSE @[n]]]

\* CheckIfGlobal(const Operand&)
CheckIfGlobal(v, program, op) ==
  IF op.is_var THEN CheckIfGlobalVar(v, program, op.var) ELSE v

VerifyVisitProgram(v, program) ==
  LET fnames == SortedKeys(DOMAIN program.functions_)
      v1 == ErrIf(v, "main" \notin DOMAIN program.functions_,
                  "Program does not have a main function." \o "\n")
  IN Err(v1, Join([i \in 1..Len(fnames) |->
                     IF fnames[i] # program.functions_[fnames[i]].name_
                     THEN "Mismatched function names: " \o fnames[i]
                          \o " mapped to "
                          \o program.functions_[fnames[i]].name_ \o "\n"
                     ELSE ""], ""))

RECURSIVE VerifyFields(_, _, _, _, _)
VerifyFields(v, program, name, elements, fieldnames) ==
  IF fieldnames = <<>> THEN v
  ELSE LET fieldname == Head(fieldnames)
           v1 == ErrIf(v, fieldname = "",
                       "Struct field names must be non-empty: " \o name
                       \o "." \o fieldname \o "\n")
           v2 == ErrIf(v1, Find(fieldname, ".", 0) # Npos,
                       "struct field name can't contain '.': " \o name
                       \o "." \o fieldname \o "\n")
       IN VerifyFields(ReportIfNonexistentStruct(v2, program,
                                                 elements[fieldname]),
                       program, name, elements, Tail(fieldnames))

VerifyVisitStructType(v, program, name, elements) ==
  LET v1 == ErrIf(v, Find(name, ".", 0) # Npos,
                  "struct type name can't contain '.': " \o name \o "\n")
      v2 == ErrIf(v1, DOMAIN elements = {},
                  "Struct type can't have empty fields: " \o name \o "\n")
  IN VerifyFields(v2, program, name, elements, SortedKeys(DOMAIN elements))

\* the loop over function.parameters(); params is the local set<VarPtr_t>
RECURSIVE VerifyParams(_, _, _, _, _)
VerifyParams(v, program, function, params, i) ==
  IF i > Len(function.parameters_) THEN v
  ELSE LET param == function.parameters_[i]
           v1 == ErrIf(v, param \in params,
                       "Duplicate parameter variables for function "
                       \o function.name_ \o "\n")
           v2 == ErrIf(v1, IsGlobalName(param.name),
                       "Cannot use global variable as parameter in function "
                       \o function.name_ \o "\n")
           v3 == ReportIfNonexistentStruct(v2, program, param.type)
           v4 == ReportIfNotToplevelType(v3, param.type)
       IN VerifyParams(v4, program, function, params \cup {param}, i + 1)

VerifyVisitFunction(v, program, function) ==
  LET labels == SortedKeys(DOMAIN function.body_)
      v1 == ErrIf([v EXCEPT !.curr_function_ = function],
                  "entry" \notin DOMAIN function.body_,
                  "Function must have a basic block named 'entry': "
                  \o function.name_ \o "\n")
      v2 == Err(v1, Join([i \in 1..Len(labels) |->
                            IF labels[i] # function.body_[labels[i]].label_
                            THEN "Mismatched basic block labels: "
                                 \o labels[i] \o " mapped to "
                                 \o function.body_[labels[i]].label_ \o "\n"
                            ELSE ""], ""))
      v3 == VerifyParams(v2, program, function, {}, 1)
  IN ReportIfNotToplevelType(v3, function.return_type_)

\* a variant of the verifier that does not look for terminators
VerifyVisitBasicBlockAnyBody(v, basic_block) ==
  LET bb_id == v.curr_function_.name_ \o "::" \o basic_block.label_
      v1 == [v EXCEPT !.curr_bb_ = basic_block, !.bb_id_ = bb_id]
  IN IF basic_block.parent_ = NullPtr
     THEN Err(v1, "Basic block's parent pointer isn't set: " \o bb_id \o "\n")
     ELSE ErrIf(v1, basic_block.parent_ # v.curr_function_.self,
                "Basic block's parent doesn't match containing function: "
                \o bb_id \o "\n")

VerifyVisitBasicBlock(v, basic_block) ==
  LET body == basic_block.body_
      bb_id == v.curr_function_.name_ \o "::" \o basic_block.label_
      v1 == [v EXCEPT !.curr_bb_ = basic_block, !.bb_id_ = bb_id]
      v2 == ErrIf(v1, ~IsTerminator(GetOpcode(Back(body))),
                  "Basic block does not end in a terminator instruction: "
                  \o bb_id \o "\n")
      v3 == ErrIf(v2, \E i \in 1..(Len(body) - 1) :
                        IsTerminator(GetOpcode(body[i])),
                  "Basic block contains a terminator instruction before its "
                  \o "end: " \o bb_id \o "\n")
  IN IF basic_block.parent_ = NullPtr
     THEN Err(v3, "Basic block's parent pointer isn't set: " \o bb_id \o "\n")
     ELSE ErrIf(v3, basic_block.parent_ # v.curr_function_.self,
                "Basic block's parent doesn't match containing function: "
                \o bb_id \o "\n")

\* VisitInst(const Instruction&)
VerifyVisitInstruction(v, inst) ==
  IF inst.parent_ = NullPtr
  THEN Err(v, "Instruction's parent pointer isn't set" \o "\n")
  ELSE ErrIf(v, inst.parent_ # v.curr_bb_.self,
             "Instruction's parent pointer doesn't match containing basic "
             \o "block: " \o v.curr_bb_.label_ \o "\n")

\* The statements of a VisitInst overload, in the order they are executed:
\* calls of the private helpers, "if (cond) err_ << text", and the Deref
\* whose CHECK_GT(indirection_, 0) ends the process.
NonexistentStruct(type) ==
  [call |-> "ReportIfNonexistentStruct", type |-> type]
NotToplevelType(type) == [call |-> "ReportIfNotToplevelType", type |-> type]
Unassignable(var) == [call |-> "ReportIfUnassignable", var |-> var]
GlobalVar(var) == [call |-> "CheckIfGlobal", op |-> VarOperand(var)]
Global(op) == [call |-> "CheckIfGlobal", op |-> op]
If(cond, text) == [call |-> "err_", cond |-> cond, text |-> text]
DerefOf(type) == [call |-> "Deref", type |-> type]

Statement(v, program, s) ==
  CASE s.call = "ReportIfNonexistentStruct" ->
         ReportIfNonexistentStruct(v, program, s.type)
    [] s.call = "ReportIfNotToplevelType" -> ReportIfNotToplevelType(v, s.type)
    [] s.call = "ReportIfUnassignable" -> ReportIfUnassignable(v, s.var)
    [] s.call = "CheckIfGlobal" -> CheckIfGlobal(v, program, s.op)
    [] s.call = "err_" -> ErrIf(v, s.cond, s.text)
    [] s.call = "Deref" ->
         IF IsPtr(s.type) THEN v ELSE [v EXCEPT !.aborted = TRUE]

RECURSIVE Statements(_, _, _)
Statements(v, program, body) ==
  IF body = <<>> \/ v.aborted THEN v
  ELSE Statements(Statement(v, program, Head(body)), program, Tail(body))

VerifyArith(v, program, inst, inst_str) ==
  Statements(v, program,
    << NonexistentStruct(inst.lhs.type),
       NonexistentStruct(GetType(inst.op1)),
       NonexistentStruct(GetType(inst.op2)),
       GlobalVar(inst.lhs),
       Global(inst.op1),
       Global(inst.op2),
       If(~IsInt(inst.lhs.type),
          "Type error: result of arithmetic must be an int: "
          \o inst_str \o "\n"),
       If(~IsInt(GetType(inst.op1)),
          "Type error: operand of arithmetic must be an int: "
          \o inst_str \o "\n"),
       If(~IsInt(GetType(inst.op2)),
          "Type error: operand of arithmetic must be an int: "
          \o inst_str \o "\n") >>)

VerifyCmp(v, program, inst, inst_str) ==
  Statements(v, program,
    << NonexistentStruct(inst.lhs.type),
       NonexistentStruct(GetType(inst.op1)),
       NonexistentStruct(GetType(inst.op2)),
       GlobalVar(inst.lhs),
       Global(inst.op1),
       Global(inst.op2),
       If(~IsInt(inst.lhs.type),
          "Type error: result of comparison must be an int: "
          \o inst_str \o "\n"),
       If(~IsInt(GetType(inst.op1)) /\ ~IsPtr(GetType(inst.op1)),
          "Type error: operand of comparison must be an int or pointer: "
          \o inst_str \o "\n"),
       If(~IsInt(GetType(inst.op2)) /\ ~IsPtr(GetType(inst.op2)),
          "Type error: operand of comparison must be an int or pointer: "
          \o inst_str \o "\n") >>)

\* "for (const auto& op : inst.ops()) { ... }"
VerifyPhiOps(inst, inst_str) ==
  Flatten([i \in 1..Len(inst.ops) |->
             << NonexistentStruct(GetType(inst.ops[i])),
                Global(inst.ops[i]),
                If(GetType(inst.ops[i]) # inst.lhs.type,
                   "Type error: operand type doesn't match left-hand side: "
                   \o inst_str \o "\n") >>])

VerifyPhi(v, program, inst, inst_str) ==
  Statements(v, program,
    << NonexistentStruct(inst.lhs.type),
       GlobalVar(inst.lhs) >>
    \o VerifyPhiOps(inst, inst_str)
    \o << NotToplevelType(inst.lhs.type),
          Unassignable(inst.lhs) >>)

VerifyCopy(v, program, inst, inst_str) ==
  Statements(v, program,
    << NonexistentStruct(inst.lhs.type),
       NonexistentStruct(GetType(inst.rhs)),
       GlobalVar(inst.lhs),
       Global(inst.rhs),
       If(GetType(inst.rhs) # inst.lhs.type,
          "Type error: operand type doesn't match left-hand side: "
          \o inst_str \o "\n"),
       NotToplevelType(inst.lhs.type),
       Unassignable(inst.lhs) >>)

VerifyAlloc(v, program, inst, inst_str) ==
  Statements(v, program,
    << NonexistentStruct(inst.lhs.type),
       GlobalVar(inst.lhs),
       If(~IsPtr(inst.lhs.type),
          "Type error: result of alloc must be a pointer: "
          \o inst_str \o "\n"),
       Unassignable(inst.lhs) >>)

VerifyAddrOf(v, program, inst, inst_str) ==
  Statements(v, program,
    << NonexistentStruct(inst.lhs.type),
       NonexistentStruct(inst.rhs.type),
       GlobalVar(inst.lhs),
       GlobalVar(inst.rhs),
       If(~IsPtr(inst.lhs.type) \/ Deref(inst.lhs.type) # inst.rhs.type,
          "Type error: result of addrof must be a pointer to operand type: "
          \o inst_str \o "\n"),
       Unassignable(inst.lhs) >>)

\* the type-error text of load and store is not followed by std::endl
VerifyLoad(v, program, inst, inst_str) ==
  Statements(v, program,
    << NonexistentStruct(inst.lhs.type),
       NonexistentStruct(inst.src.type),
       GlobalVar(inst.lhs),
       GlobalVar(inst.src),
       If(PtrTo(inst.lhs.type) # inst.src.type,
          "Type error: source of load must be a pointer to type of result: "
          \o inst_str),
       NotToplevelType(inst.lhs.type),
       Unassignable(inst.lhs) >>)

VerifyStore(v, program, inst, inst_str) ==
  Statements(v, program,
    << NonexistentStruct(inst.dst.type),
       NonexistentStruct(GetType(inst.value)),
       GlobalVar(inst.dst),
       Global(inst.value),
       If(PtrTo(GetType(inst.value)) # inst.dst.type,
          "Type error: destination of store must be a pointer to type of "
          \o "stored value: " \o inst_str),
       Unassignable(inst.dst) >>)

\* the statements of the gep check after "if (inst.field_name() == "")",
\* for the fields of the struct the source points to
VerifyGepField(inst, inst_str, fields) ==
  IF inst.field_name \notin DOMAIN fields
  THEN << If(TRUE,
             "Type error: mismatch between struct type and field name: "
             \o inst_str \o "\n"),
          Unassignable(inst.lhs) >>
  ELSE << DerefOf(inst.lhs.type),
          If(Deref(inst.lhs.type) # fields[inst.field_name],
             "Type error: Result type must be a pointer to type of field: "
             \o inst_str \o "\n"),
          Unassignable(inst.lhs) >>

VerifyGep(v, program, inst, inst_str) ==
  Statements(v, program,
    << NonexistentStruct(inst.lhs.type),
       NonexistentStruct(inst.src_ptr.type),
       NonexistentStruct(GetType(inst.index)),
       GlobalVar(inst.lhs),
       GlobalVar(inst.src_ptr),
       Global(inst.index),
       If(~IsInt(GetType(inst.index)), "Index must be an integer" \o "\n") >>
    \o IF inst.field_name = ""
       THEN << If(~IsPtr(inst.src_ptr.type),
                  "Type error: source must be a pointer: "
                  \o inst_str \o "\n"),
               If(inst.lhs.type # inst.src_ptr.type,
                  "Type error: type of source pointer must match left-hand "
                  \o "side: " \o inst_str \o "\n") >>       \* return
       ELSE IF ~IsStructPtr(inst.src_ptr.type)
       THEN << If(TRUE,
                  "Type error: source must be a pointer to a struct: "
                  \o inst_str \o "\n") >>                    \* return
       ELSE IF inst.src_ptr.type.name \notin DOMAIN program.struct_types_
       THEN <<>>                                             \* return
       ELSE VerifyGepField(inst, inst_str,
                           program.struct_types_[inst.src_ptr.type.name]))

VerifySelect(v, program, inst, inst_str) ==
  Statements(v, program,
    << NonexistentStruct(inst.lhs.type),
       NonexistentStruct(GetType(inst.condition)),
       NonexistentStruct(GetType(inst.true_op)),
       NonexistentStruct(GetType(inst.false_op)),
       Unassignable(inst.lhs),
       GlobalVar(inst.lhs),
       Global(inst.condition),
       Global(inst.true_op),
       Global(inst.false_op),
       If(~IsInt(GetType(inst.condition)),
          "Type error: select condition must be an int: "
          \o inst_str \o "\n"),
       If(\/ inst.lhs.type # GetType(inst.true_op)
          \/ inst.lhs.type # GetType(inst.false_op),
          "Type error: type of select operands and left-hand side must "
          \o "match: " \o inst_str \o "\n"),
       NotToplevelType(inst.lhs.type) >>)

\* the argument loops of the call and icall checks; types are the parameter
\* types the arguments are compared with.  The loop breaks after the
\* CheckIfGlobal of the first argument that has no parameter.
VerifyArgs(inst, inst_str, types) ==
  Flatten([i \in 1..Len(inst.args) |->
             IF i <= Len(types)
             THEN << Global(inst.args[i]),
                     If(GetType(inst.args[i]) # types[i],
                        "Type error: type of argument doesn't match type of "
                        \o "parameter: " \o inst_str \o "\n") >>
             ELSE IF i = Len(types) + 1 THEN << Global(inst.args[i]) >>
             ELSE <<>>])

\* the statements of the call check for a callee the program defines
VerifyCallee(inst, inst_str, callee) ==
  << If(Len(callee.parameters_) # Len(inst.args),
        "Type error: incorrect number of call arguments: "
        \o inst_str \o "\n") >>
  \o VerifyArgs(inst, inst_str,
                [i \in 1..Len(callee.parameters_) |->
                   callee.parameters_[i].type])
  \o << If(inst.lhs.type # callee.return_type_,
           "Type error: function return type doesn't match left-hand "
           \o "side: " \o inst_str \o "\n") >>

VerifyCall(v, program, inst, inst_str) ==
  Statements(v, program,
    << NonexistentStruct(inst.lhs.type),
       Unassignable(inst.lhs),
       GlobalVar(inst.lhs) >>
    \o IF inst.callee \notin DOMAIN program.functions_
       THEN <<>>                                             \* return
       ELSE VerifyCallee(inst, inst_str, program.functions_[inst.callee]))

\* the statements of the icall check for the types of a function pointer
VerifyFuncTypes(inst, inst_str, types) ==
  << If(Len(inst.args) # Len(types) - 1,
        "Type error: incorrect number of call arguments: "
        \o inst_str \o "\n") >>
  \o VerifyArgs(inst, inst_str, Tail(types))
  \o << If(inst.lhs.type # types[1],
           "Type error: function return type doesn't match left-hand "
           \o "side: " \o inst_str \o "\n"),
        NotToplevelType(inst.lhs.type) >>

VerifyICall(v, program, inst, inst_str) ==
  Statements(v, program,
    << NonexistentStruct(inst.lhs.type),
       NonexistentStruct(inst.func_ptr.type),
       Unassignable(inst.lhs),
       GlobalVar(inst.lhs),
       GlobalVar(inst.func_ptr) >>
    \o IF ~IsFunctionPtr(inst.func_ptr.type)
       THEN << If(TRUE,
                  "Type error: calling a non-function pointer: "
                  \o inst_str \o "\n") >>                    \* return
       ELSE VerifyFuncTypes(inst, inst_str, inst.func_ptr.type.types))

VerifyRet(v, program, inst, inst_str) ==
  Statements(v, program,
    << NonexistentStruct(GetType(inst.retval)),
       Global(inst.retval),
       If(GetType(inst.retval) # v.curr_function_.return_type_,
          "Type error: operand type does not match function return type: "
          \o inst_str \o "\n") >>)

VerifyJump(v, inst) ==
  ErrIf(v, inst.label \notin DOMAIN v.curr_function_.body_,
        "Basic block '" \o v.bb_id_ \o "' jumps to nonexistent basic block '"
        \o inst.label \o "'" \o "\n")

VerifyBranch(v, program, inst) ==
  Statements(v, program,
    << NonexistentStruct(GetType(inst.condition)),
       Global(inst.condition),
       If(inst.label_true \notin DOMAIN v.curr_function_.body_,
          "Basic block '" \o v.bb_id_
          \o "' branches to nonexistent basic block '"
          \o inst.label_true \o "'" \o "\n"),
       If(inst.label_false \notin DOMAIN v.curr_function_.body_,
          "Basic block '" \o v.bb_id_
          \o "' branches to nonexistent basic block '"
          \o inst.label_false \o "'" \o "\n") >>)

\* the VisitInst overload of VerifyVisitor for an instruction of the given
\* kind; inst_str is the "Instruction(inst).ToString()" of its messages
VerifyVisitInst(v, program, kind, inst, inst_str) ==
  CASE kind = "ArithInst" -> VerifyArith(v, program, inst, inst_str)
    [] kind = "CmpInst" -> VerifyCmp(v, program, inst, inst_str)
    [] kind = "PhiInst" -> VerifyPhi(v, program, inst, inst_str)
    [] kind = "CopyInst" -> VerifyCopy(v, program, inst, inst_str)
    [] kind = "AllocInst" -> VerifyAlloc(v, program, inst, inst_str)
    [] kind = "AddrOfInst" -> VerifyAddrOf(v, program, inst, inst_str)
    [] kind = "LoadInst" -> VerifyLoad(v, program, inst, inst_str)
    [] kind = "StoreInst" -> VerifyStore(v, program, inst, inst_str)
    [] kind = "GepInst" -> VerifyGep(v, program, inst, inst_str)
    [] kind = "SelectInst" -> VerifySelect(v, program, inst, inst_str)
    [] kind = "CallInst" -> VerifyCall(v, program, inst, inst_str)
    [] kind = "ICallInst" -> VerifyICall(v, program, inst, inst_str)
    [] kind = "RetInst" -> VerifyRet(v, program, inst, inst_str)
    [] kind = "JumpInst" -> VerifyJump(v, inst)
    [] kind = "BranchInst" -> VerifyBranch(v, program, inst)

\* one callback of VerifyVisitor
VerifyVisitorCall(v, program, c) ==
  CASE c.cb = "VisitProgram" -> VerifyVisitProgram(v, program)
    [] c.cb = "VisitStructType" ->
         VerifyVisitStructType(v, program, c.arg.name, c.arg.elements)
    [] c.cb = "VisitFunction" -> VerifyVisitFunction(v, program, c.arg)
    [] c.cb = "VisitBasicBlock" -> VerifyVisitBasicBlock(v, c.arg)
    [] c.cb = "VisitInst" /\ c.kind = "Instruction" ->
         VerifyVisitInstruction(v, c.arg)
    [] c.cb = "VisitInst" /\ c.kind # "Instruction" ->
         VerifyVisitInst(v, program, c.kind, c.arg.inst_,
                         InstStr(c.arg.inst_))
    [] OTHER -> v

RECURSIVE VerifyVisitorRun(_, _, _)
VerifyVisitorRun(v, program, calls) ==
  IF calls = <<>> \/ v.aborted THEN v
  ELSE VerifyVisitorRun(VerifyVisitorCall(v, program, Head(calls)), program,
                        Tail(calls))

EmptyMap == [k \in {} |-> 0]

NewVerifyVisitor ==
  [err_ |-> "", curr_function_ |-> NullPtr, curr_bb_ |-> NullPtr,
   bb_id_ |-> "", nonexistent_structs_ |-> {}, func_ptrs_ |-> EmptyMap,
   aborted |-> FALSE]

\* what VerifyIr takes from the verifier after the traversal
Verdict(verifier) ==
  [errs |-> verifier.err_, func_ptrs_ |-> verifier.func_ptrs_,
   aborted |-> verifier.aborted]

\* Program::VerifyIr: the error text and the func_ptrs_ it stores
VerifyIr(program) ==
  Verdict(VerifyVisitorRun(NewVerifyVisitor, program, ProgramVisit(program)))

FunctionAddr(name) == "F:" \o name

\* Program::Program(struct_types, functions)
\* the members after the initialiser list and the loop over functions
Unverified(struct_types, functions) ==
  [struct_types_ |-> struct_types,
   functions_ |-> [n \in {functions[i].name_ : i \in 1..Len(functions)} |->
                     FunctionCopy(functions[CHOOSE i \in 1..Len(functions) :
                                              functions[i].name_ = n],
                                  FunctionAddr(n))],
   func_ptrs_ |-> EmptyMap]

\* "VerifyIr();" at the end of the constructor, with its fatal CHECK
Verified(program, verified) ==
  [ok |-> ~verified.aborted /\ verified.errs = "",
   errs |-> verified.errs,
   val |-> [program EXCEPT !.func_ptrs_ = verified.func_ptrs_]]

VerifiedProgram(program) == Verified(program, VerifyIr(program))

\* Program::Program(struct_types, functions)
Program(struct_types, functions) ==
  IF \E i, j \in 1..Len(functions) :
       functions[i].name_ = functions[j].name_ /\ i # j
  THEN [ok |-> FALSE, errs |-> "",
        val |-> Unverified(struct_types, functions)]
  ELSE VerifiedProgram(Unverified(struct_types, functions))

(***************************************************************************)
(* FromStringHelper                                                        *)
(***************************************************************************)
whitespace_ == {" ", "\n"}
delimiters_ == {":", ",", "=", "->", "*", "[", "]", "{", "}", "(", ")"}
reserved_ ==
  {"$arith", "$cmp", "$phi", "$alloc", "$addrof", "$load", "$store", "$gep",
   "$select", "$call", "$icall", "$ret", "$jump", "$branch"}

\* FromStringHelper::FromStringHelper.  heap counts the Variable objects made
\* so far (each make_shared yields a new identity); rtl tells whether the
\* build evaluates the arguments of a call right to left, which the language
\* leaves to the compiler.
HelperOf(tokenizer, rtl) ==
  [ok |-> tokenizer.ok,
   h |-> [tk_ |-> tokenizer.tk, vars_ |-> EmptyMap, func_vars_ |-> EmptyMap,
          null_vars_ |-> EmptyMap, heap |-> 0, rtl |-> rtl]]

FromStringHelper(str, rtl) ==
  HelperOf(Tokenizer(str, whitespace_, delimiters_, reserved_, <<>>), rtl)

MapPut(m, k, x) == [n \in DOMAIN m \cup {k} |-> IF n = k THEN x ELSE m[n]]

\* results of the reading steps: ok is FALSE when a CHECK or an exception
\* would have ended the process
Done(h, val) == [ok |-> TRUE, h |-> h, val |-> val]
Fatal(h) == [ok |-> FALSE, h |-> h, val |-> <<>>]

\* a Tokenizer call made through tk_
OnTk(h, r) == [ok |-> r.ok, h |-> [h EXCEPT !.tk_ = r.tk], val |-> r.val]

HConsume(h, str) == OnTk(h, Consume(h.tk_, str))
HConsumeToken(h) == OnTk(h, ConsumeToken(h.tk_))
HQueryConsume(h, str) == OnTk(h, QueryConsume(h.tk_, str))
HQueryNoConsume(h, str) == OnTk(h, QueryNoConsume(h.tk_, str))
HReadType(h) == OnTk(h, ReadType(h.tk_))
EndOfInputOn(h, r) ==
  [ok |-> TRUE, h |-> [h EXCEPT !.tk_ = r.tk], val |-> r.val]
HEndOfInput(h) == EndOfInputOn(h, EndOfInput(h.tk_))

\* statements in sequence: r is the result of the statements so far and val
\* the values they read, in the order they were read
Begin(h) == Done(h, <<>>)
Push(r, s) == [ok |-> s.ok, h |-> s.h, val |-> Append(r.val, s.val)]
Skip(r, s) == [ok |-> s.ok, h |-> s.h, val |-> r.val]
ThenToken(r) == IF r.ok THEN Push(r, HConsumeToken(r.h)) ELSE r
ThenConsume(r, str) == IF r.ok THEN Skip(r, HConsume(r.h, str)) ELSE r
ThenType(r) == IF r.ok THEN Push(r, HReadType(r.h)) ELSE r

\* "if (!tk_.QueryNoConsume(closing)) tk_.Consume(",")", for the result of
\* the query
CommaUnless(closing) ==
  IF closing.val THEN closing ELSE HConsume(closing.h, ",")

IntMax == 2147483647

Digits == {"0", "1", "2", "3", "4", "5", "6", "7", "8", "9"}

DigitVal(c) == CHOOSE d \in 0..9 : Char("0123456789", d) = c

\* the int the leading digits of s denote, accumulated with the sign so that
\* INT_MIN is reached without leaving the range; ok is FALSE out of range
RECURSIVE DigitsVal(_, _, _)
DigitsVal(s, neg, acc) ==
  IF s = "" \/ Head(s) \notin Digits THEN [ok |-> TRUE, val |-> acc]
  ELSE LET d == DigitVal(Head(s))
           m == IF neg THEN -acc ELSE acc
           last == IF neg THEN (IntMax % 10) + 1 ELSE IntMax % 10
       IN IF m > IntMax \div 10 \/ (m = IntMax \div 10 /\ d > last)
          THEN [ok |-> FALSE, val |-> 0]
          ELSE DigitsVal(Tail(s), neg,
                         IF neg THEN acc * 10 - d ELSE acc * 10 + d)

\* std::stoi on a token of '-' and digits: an optional sign, then the digits
\* up to the first other character; no digits or a value outside int throws
Stoi(token) ==
  LET neg == Head(token) = "-"
      rest == IF neg THEN Tail(token) ELSE token
  IN IF rest = "" \/ Head(rest) \notin Digits THEN [ok |-> FALSE, val |-> 0]
     ELSE DigitsVal(rest, neg, 0)

\* make_shared<const Variable>(name, type)
NewVariable(h, name, type) ==
  [ok |-> name # "",
   h |-> [h EXCEPT !.heap = @ + 1],
   val |-> Variable(h.heap + 1, name, type)]

\* a variant of read_var that makes a new Variable at every occurrence
VarNamedFresh(h, name, type, made) == Done(made.h, made.val)

\* the variable read_var returns for a name and a type; made is the Variable
\* a make_shared would yield
VarNamed(h, name, type, made) ==
  IF name = "@nullptr"
  THEN IF type \notin DOMAIN h.null_vars_
       THEN Done([made.h EXCEPT !.null_vars_ = MapPut(@, type, made.val)],
                 made.val)
       ELSE Done(h, h.null_vars_[type])
  ELSE IF Char(name, 0) = "@"
  THEN IF name \notin DOMAIN h.func_vars_
       THEN Done([made.h EXCEPT !.func_vars_ = MapPut(@, name, made.val)],
                 made.val)
       ELSE IF h.func_vars_[name].type # type THEN Fatal(h)
       ELSE Done(h, h.func_vars_[name])
  ELSE IF name \notin DOMAIN h.vars_
  THEN Done([made.h EXCEPT !.vars_ = MapPut(@, name, made.val)], made.val)
  ELSE IF h.vars_[name].type # type THEN Fatal(h)
  ELSE Done(h, h.vars_[name])

VarAfterType(r) ==
  IF r.ok
  THEN VarNamed(r.h, r.val[1], r.val[2],
                NewVariable(r.h, r.val[1], r.val[2]))
  ELSE Fatal(r.h)

read_var(h) == VarAfterType(ThenType(ThenConsume(ThenToken(Begin(h)), ":")))

OperandOfInt(h, n) == IF n.ok THEN Done(h, IntOperand(n.val)) ELSE Fatal(h)

OperandOfVar(var) ==
  IF var.ok THEN Done(var.h, VarOperand(var.val)) ELSE Fatal(var.h)

OperandAfterToken(token) ==
  IF ~token.ok THEN Fatal(token.h)
  ELSE IF FindFirstNotOf(token.val, Digits \cup {"-"}, 0) = Npos
  THEN OperandOfInt(token.h, Stoi(token.val))
  ELSE OperandOfVar(read_var([token.h EXCEPT !.tk_ = Put(@, token.val)]))

read_op(h) == OperandAfterToken(HConsumeToken(h))

\* "while (!tk_.QueryConsume(")")) { ... }"
RECURSIVE read_args_loop(_, _)
ArgsAfterSeparator(separator, ops) ==
  IF separator.ok THEN read_args_loop(separator.h, ops)
  ELSE Fatal(separator.h)

ArgsAfterOp(op, ops) ==
  IF op.ok
  THEN ArgsAfterSeparator(CommaUnless(HQueryNoConsume(op.h, ")")),
                          Append(ops, op.val))
  ELSE Fatal(op.h)

ArgsAfterQuery(closed, ops) ==
  IF ~closed.ok THEN Fatal(closed.h)
  ELSE IF closed.val THEN Done(closed.h, ops)
  ELSE ArgsAfterOp(read_op(closed.h), ops)

read_args_loop(h, ops) == ArgsAfterQuery(HQueryConsume(h, ")"), ops)

ArgsAfterParen(paren) ==
  IF paren.ok THEN read_args_loop(paren.h, <<>>) ELSE Fatal(paren.h)

read_args(h) == ArgsAfterParen(HConsume(h, "("))

ThenVar(r) == IF r.ok THEN Push(r, read_var(r.h)) ELSE r
ThenOp(r) == IF r.ok THEN Push(r, read_op(r.h)) ELSE r
ThenArgs(r) == IF r.ok THEN Push(r, read_args(r.h)) ELSE r

\* the values of argument expressions that were evaluated right to left, in
\* parameter order
InParameterOrder(r) == IF r.ok THEN [r EXCEPT !.val = Reverse(@)] ELSE r

str_to_aop ==
  [add |-> "kAdd", sub |-> "kSubtract", mul |-> "kMultiply", div |-> "kDivide"]

str_to_rop ==
  [eq |-> "kEqual", neq |-> "kNotEqual", lt |-> "kLessThan",
   gt |-> "kGreaterThan", lte |-> "kLessThanEqual",
   gte |-> "kGreaterThanEqual"]

\* the if / else-if chain of QueryConsume calls: the first word of words that
\* is the next token is consumed and returned, "" when none is
RECURSIVE QueryConsumeFirst(_, _)
FirstAfterQuery(query, words) ==
  IF ~query.ok THEN Fatal(query.h)
  ELSE IF query.val THEN Done(query.h, Head(words))
  ELSE QueryConsumeFirst(query.h, Tail(words))

QueryConsumeFirst(h, words) ==
  IF words = <<>> THEN Done(h, "")
  ELSE FirstAfterQuery(HQueryConsume(h, Head(words)), words)

Temp(inst) == Instruction(inst, NullPtr, "tmp")

\* the argument expressions of the constructor call of an instruction that
\* starts with its opcode, evaluated in the order the build chose
UnassignedArgs(h, word) ==
  CASE word = "$store" ->
         IF h.rtl THEN InParameterOrder(ThenVar(ThenOp(Begin(h))))
         ELSE ThenOp(ThenVar(Begin(h)))
    [] word = "$jump" -> ThenToken(Begin(h))
    [] word = "$branch" ->
         IF h.rtl
         THEN InParameterOrder(ThenOp(ThenToken(ThenToken(Begin(h)))))
         ELSE ThenToken(ThenToken(ThenOp(Begin(h))))
    [] word = "$ret" -> ThenOp(Begin(h))

UnassignedInst(word, args) ==
  CASE word = "$store" -> StoreInst(args[1], args[2])
    [] word = "$jump" -> JumpInst(args[1])
    [] word = "$branch" -> BranchInst(args[1], args[2], args[3])
    [] word = "$ret" -> RetInst(args[1])

UnassignedRead(word, args) ==
  IF args.ok THEN Done(args.h, Temp(UnassignedInst(word, args.val)))
  ELSE Fatal(args.h)

\* the instructions that start with their opcode
ReadUnassigned(h, word) == UnassignedRead(word, UnassignedArgs(h, word))

\* the argument expressions after lhs of the constructor call of an
\* instruction with an assignment, evaluated in the order the build chose
AssignedArgs(h, word) ==
  CASE word \in {"$arith", "$cmp"} ->
         IF h.rtl THEN InParameterOrder(ThenOp(ThenOp(Begin(h))))
         ELSE ThenOp(ThenOp(Begin(h)))
    [] word = "$phi" -> ThenArgs(Begin(h))
    [] word = "$copy" -> ThenOp(Begin(h))
    [] word = "$alloc" -> Begin(h)
    [] word \in {"$addrof", "$load"} -> ThenVar(Begin(h))
    [] word = "$select" ->
         IF h.rtl THEN InParameterOrder(ThenOp(ThenOp(ThenOp(Begin(h)))))
         ELSE ThenOp(ThenOp(ThenOp(Begin(h))))
    [] word = "$call" ->
         IF h.rtl THEN InParameterOrder(ThenToken(ThenArgs(Begin(h))))
         ELSE ThenArgs(ThenToken(Begin(h)))
    [] word = "$icall" ->
         IF h.rtl THEN InParameterOrder(ThenVar(ThenArgs(Begin(h))))
         ELSE ThenArgs(ThenVar(Begin(h)))

\* operation is the Aop or Rop read before the arguments of $arith and $cmp
AssignedInst(word, lhs, operation, args) ==
  CASE word = "$arith" -> ArithInst(lhs, args[1], args[2], operation)
    [] word = "$cmp" -> CmpInst(lhs, args[1], args[2], operation)
    [] word = "$phi" -> PhiInst(lhs, args[1])
    [] word = "$copy" -> CopyInst(lhs, args[1])
    [] word = "$alloc" -> AllocInst(lhs)
    [] word = "$addrof" -> AddrOfInst(lhs, args[1])
    [] word = "$load" -> LoadInst(lhs, args[1])
    [] word = "$select" -> SelectInst(lhs, args[1], args[2], args[3])
    [] word = "$call" -> CallInst(lhs, args[1], args[2])
    [] word = "$icall" -> ICallInst(lhs, args[1], args[2])

AssignedRead(word, lhs, operation, args) ==
  IF args.ok
  THEN Done(args.h, Temp(AssignedInst(word, lhs, operation, args.val)))
  ELSE Fatal(args.h)

\* "string op = tk_.ConsumeToken(); CHECK(str_to_aop.count(op))", then the
\* constructor call
AfterOperation(word, lhs, op, known) ==
  IF op.ok /\ op.val \in DOMAIN known
  THEN AssignedRead(word, lhs, known[op.val], AssignedArgs(op.h, word))
  ELSE Fatal(op.h)

\* "$gep": the operands, then the optional field name
GepRead(lhs, args, field) ==
  IF field.ok
  THEN Done(field.h, Temp(GepInst(lhs, args[1], args[2], field.val)))
  ELSE Fatal(field.h)

GepAfterEnd(lhs, args, end) ==
  IF /\ ~end.val
     /\ ~IsNextReserved(end.h.tk_)
     /\ Peek(end.h.tk_, 1) # ":"
  THEN GepRead(lhs, args, HConsumeToken(end.h))
  ELSE Done(end.h, Temp(GepInst(lhs, args[1], args[2], "")))

GepAfterOperands(lhs, operands) ==
  IF operands.ok
  THEN GepAfterEnd(lhs, operands.val, HEndOfInput(operands.h))
  ELSE Fatal(operands.h)

\* ReadGep without the test "tk_.Peek(1) != \":\""
GepAfterEndGreedy(lhs, args, end) ==
  IF ~end.val /\ ~IsNextReserved(end.h.tk_)
  THEN GepRead(lhs, args, HConsumeToken(end.h))
  ELSE Done(end.h, Temp(GepInst(lhs, args[1], args[2], "")))

GepAfterOperandsGreedy(lhs, operands) ==
  IF operands.ok
  THEN GepAfterEndGreedy(lhs, operands.val, HEndOfInput(operands.h))
  ELSE Fatal(operands.h)

ReadGepGreedy(h, lhs) ==
  GepAfterOperandsGreedy(lhs, ThenOp(ThenVar(Begin(h))))

ReadGep(h, lhs) == GepAfterOperands(lhs, ThenOp(ThenVar(Begin(h))))

\* the instructions with an assignment, after "lhs ="
ReadAssigned(h, lhs, word) ==
  CASE word = "$arith" ->
         AfterOperation(word, lhs, HConsumeToken(h), str_to_aop)
    [] word = "$cmp" ->
         AfterOperation(word, lhs, HConsumeToken(h), str_to_rop)
    [] word = "$gep" -> ReadGep(h, lhs)
    [] word = "" -> Fatal(h)   \* LOG(FATAL) << "Unknown opcode: "
    [] OTHER -> AssignedRead(word, lhs, "", AssignedArgs(h, word))

AssignedAfterOpcode(opcode, lhs) ==
  IF opcode.ok THEN ReadAssigned(opcode.h, lhs, opcode.val)
  ELSE Fatal(opcode.h)

AssignedAfterEq(eq, lhs) ==
  IF eq.ok
  THEN AssignedAfterOpcode(
         QueryConsumeFirst(eq.h, <<"$arith", "$cmp", "$phi", "$copy",
                                   "$alloc", "$addrof", "$load", "$gep",
                                   "$select", "$call", "$icall">>), lhs)
  ELSE Fatal(eq.h)

AssignedAfterLhs(lhs) ==
  IF lhs.ok THEN AssignedAfterEq(HConsume(lhs.h, "="), lhs.val)
  ELSE Fatal(lhs.h)

InstructionAfterOpcode(opcode) ==
  IF ~opcode.ok THEN Fatal(opcode.h)
  ELSE IF opcode.val # "" THEN ReadUnassigned(opcode.h, opcode.val)
  ELSE AssignedAfterLhs(read_var(opcode.h))

ReadInstruction(h) ==
  InstructionAfterOpcode(
    QueryConsumeFirst(h, <<"$store", "$jump", "$branch", "$ret">>))

\* "while (true) { bb_body.push_back(ReadInstruction()); ... }"
RECURSIVE ReadBody(_, _)
BodyAfterInstruction(inst, bb_body) ==
  IF ~inst.ok THEN Fatal(inst.h)
  ELSE IF IsTerminator(GetOpcode(inst.val))
  THEN Done(inst.h, Append(bb_body, inst.val))
  ELSE ReadBody(inst.h, Append(bb_body, inst.val))

ReadBody(h, bb_body) == BodyAfterInstruction(ReadInstruction(h), bb_body)

\* "return BasicBlock(label, bb_body)"
BasicBlockRead(h, bb) == IF bb.ok THEN Done(h, bb.val) ELSE Fatal(h)

BasicBlockAfterBody(label, bb_body) ==
  IF bb_body.ok
  THEN BasicBlockRead(bb_body.h,
                      BasicBlock(label, bb_body.val, NullPtr, "tmp"))
  ELSE Fatal(bb_body.h)

BasicBlockAfterLabel(label) ==
  IF label.ok THEN BasicBlockAfterBody(label.val[1], ReadBody(label.h, <<>>))
  ELSE Fatal(label.h)

ReadBasicBlock(h) ==
  BasicBlockAfterLabel(ThenConsume(ThenToken(Begin(h)), ":"))

\* the parameter loop of ReadFunction
RECURSIVE ReadParams(_, _)
ParamsAfterSeparator(separator, params) ==
  IF separator.ok THEN ReadParams(separator.h, params)
  ELSE Fatal(separator.h)

\* "params.push_back(param); vars_[param_name] = param;"
ParamsAfterParam(param_name, param, params) ==
  ParamsAfterSeparator(
    CommaUnless(HQueryNoConsume(
      [param.h EXCEPT !.vars_ = MapPut(@, param_name, param.val)], ")")),
    Append(params, param.val))

ParamsAfterType(r, params) ==
  IF r.ok
  THEN ParamsAfterParam(r.val[1], NewVariable(r.h, r.val[1], r.val[2]),
                        params)
  ELSE Fatal(r.h)

ParamsAfterQuery(closed, params) ==
  IF ~closed.ok THEN Fatal(closed.h)
  ELSE IF closed.val THEN Done(closed.h, params)
  ELSE ParamsAfterType(
         ThenType(ThenConsume(ThenToken(Begin(closed.h)), ":")), params)

ReadParams(h, params) == ParamsAfterQuery(HQueryConsume(h, ")"), params)

ThenParams(r) == IF r.ok THEN Push(r, ReadParams(r.h, <<>>)) ELSE r

\* the block loop of ReadFunction
RECURSIVE ReadBlocks(_, _)
BlocksAfterBlock(bb, fun_body) ==
  IF bb.ok THEN ReadBlocks(bb.h, Append(fun_body, bb.val)) ELSE Fatal(bb.h)

BlocksAfterQuery(closed, fun_body) ==
  IF ~closed.ok THEN Fatal(closed.h)
  ELSE IF closed.val THEN Done(closed.h, fun_body)
  ELSE BlocksAfterBlock(ReadBasicBlock(closed.h), fun_body)

ReadBlocks(h, fun_body) == BlocksAfterQuery(HQueryConsume(h, "}"), fun_body)

\* "return Function(fun_name, fun_rettype, params, fun_body)"
FunctionRead(h, fun) == IF fun.ok THEN Done(h, fun.val) ELSE Fatal(h)

\* header holds fun_name, params and fun_rettype, in the order read
FunctionAfterBody(header, fun_body) ==
  IF fun_body.ok
  THEN FunctionRead(fun_body.h,
                    Function(header[1], header[3], header[2], fun_body.val,
                             "tmp"))
  ELSE Fatal(fun_body.h)

FunctionAfterHeader(header) ==
  IF header.ok THEN FunctionAfterBody(header.val, ReadBlocks(header.h, <<>>))
  ELSE Fatal(header.h)

ReadFunction(h) ==
  FunctionAfterHeader(
    ThenConsume(
      ThenType(
        ThenConsume(
          ThenParams(
            ThenConsume(
              ThenToken(
                ThenConsume(Begin([h EXCEPT !.vars_ = EmptyMap]),
                            "function")),
              "(")),
          "->")),
      "{"))

\* the field loop of one struct definition; fields are added to
\* struct_types[name], which operator[] creates on the first field
RECURSIVE ReadFields(_, _, _)
FieldsOf(struct_types, name) ==
  IF name \in DOMAIN struct_types THEN struct_types[name] ELSE EmptyMap

FieldsAfterType(type, struct_types, name, field) ==
  IF type.ok
  THEN ReadFields(type.h,
                  MapPut(struct_types, name,
                         MapPut(FieldsOf(struct_types, name), field,
                                type.val[1])),
                  name)
  ELSE Fatal(type.h)

FieldsAfterField(field, struct_types, name) ==
  IF ~field.ok THEN Fatal(field.h)
  ELSE IF field.val \in DOMAIN FieldsOf(struct_types, name)
  THEN Fatal(field.h)
  ELSE FieldsAfterType(ThenType(ThenConsume(Begin(field.h), ":")),
                       struct_types, name, field.val)

FieldsAfterQuery(closed, struct_types, name) ==
  IF ~closed.ok THEN Fatal(closed.h)
  ELSE IF closed.val THEN Done(closed.h, struct_types)
  ELSE FieldsAfterField(HConsumeToken(closed.h), struct_types, name)

ReadFields(h, struct_types, name) ==
  FieldsAfterQuery(HQueryConsume(h, "}"), struct_types, name)

\* the struct loop of ReadProgram
RECURSIVE ReadStructs(_, _)
StructsAfterFields(fields) ==
  IF fields.ok THEN ReadStructs(fields.h, fields.val) ELSE Fatal(fields.h)

StructsAfterBrace(brace, struct_types, name) ==
  IF brace.ok THEN StructsAfterFields(ReadFields(brace.h, struct_types, name))
  ELSE Fatal(brace.h)

StructsAfterName(name, struct_types) ==
  IF ~name.ok THEN Fatal(name.h)
  ELSE IF name.val \in DOMAIN struct_types THEN Fatal(name.h)
  ELSE StructsAfterBrace(HConsume(name.h, "{"), struct_types, name.val)

StructsAfterQuery(query, struct_types) ==
  IF ~query.ok THEN Fatal(query.h)
  ELSE IF ~query.val THEN Done(query.h, struct_types)
  ELSE StructsAfterName(HConsumeToken(query.h), struct_types)

ReadStructs(h, struct_types) ==
  StructsAfterQuery(HQueryConsume(h, "struct"), struct_types)

\* the function loop of ReadProgram
RECURSIVE ReadFunctions(_, _)
FunctionsAfterFunction(fun, functions) ==
  IF fun.ok THEN ReadFunctions(fun.h, Append(functions, fun.val))
  ELSE Fatal(fun.h)

FunctionsAfterEnd(end, functions) ==
  IF end.val THEN Done(end.h, functions)
  ELSE FunctionsAfterFunction(ReadFunction(end.h), functions)

ReadFunctions(h, functions) == FunctionsAfterEnd(HEndOfInput(h), functions)

\* "return Program(struct_types, functions)"
ProgramRead(h, program) ==
  IF program.ok THEN Done(h, program.val) ELSE Fatal(h)

ProgramAfterFunctions(struct_types, functions) ==
  IF functions.ok
  THEN ProgramRead(functions.h, Program(struct_types, functions.val))
  ELSE Fatal(functions.h)

ProgramAfterStructs(struct_types) ==
  IF struct_types.ok
  THEN ProgramAfterFunctions(struct_types.val,
                             ReadFunctions(struct_types.h, <<>>))
  ELSE Fatal(struct_types.h)

ReadProgram(h) == ProgramAfterStructs(ReadStructs(h, EmptyMap))

\* Program::FromString, Function::FromString, for a build of either
\* argument order
ProgramOf(helper) ==
  IF helper.ok THEN ReadProgram(helper.h) ELSE Fatal(helper.h)

ProgramFromString(program, rtl) == ProgramOf(FromStringHelper(program, rtl))

FunctionOf(helper) ==
  IF helper.ok THEN ReadFunction(helper.h) ELSE Fatal(helper.h)

FunctionFromString(function, rtl) ==
  FunctionOf(FromStringHelper(function, rtl))

(***************************************************************************)
(* SpecType: Type::ToString followed by Type::FromString on bounded types  *)
(***************************************************************************)
MaxIndirection == 1
MaxParams == 1
MaxDepth == 2

StructNames == {"foo", "bar"}

RECURSIVE PtrN(_, _)
PtrN(t, n) == IF n = 0 THEN t ELSE PtrN(PtrTo(t), n - 1)

RECURSIVE SeqsUpTo(_, _)
SeqsUpTo(S, n) ==
  IF n = 0 THEN {<<>>}
  ELSE SeqsUpTo(S, n - 1)
       \cup {Append(q, x) : q \in {r \in SeqsUpTo(S, n - 1) : Len(r) = n - 1},
                            x \in S}

RECURSIVE TypesOfDepth(_)
TypesOfDepth(d) ==
  IF d = 0
  THEN {PtrN(b, i) : b \in {IntType} \cup {Struct(n) : n \in StructNames},
                     i \in 0..MaxIndirection}
  ELSE LET T == TypesOfDepth(d - 1)
       IN T \cup {PtrN(FunctionType(<<r>> \o ps), i) :
                    r \in T, ps \in SeqsUpTo(T, MaxParams),
                    i \in 0..MaxIndirection}

NoType == [ok |-> FALSE, val |-> IntType]
NoProgram == [ok |-> FALSE, errs |-> "", val |-> <<>>]
NoParse == [ok |-> FALSE, kind |-> "", val |-> <<>>]

IdleType == ty = IntType /\ ty_str = "" /\ ty_read = NoType
IdlePipe ==
  /\ build_rtl = FALSE /\ built = NoProgram /\ printed = "" /\ parsed = NoParse
  /\ reprinted = ""
IdleVisit == pending = <<>> /\ order_ = <<>>

NoIndex == [called |-> FALSE, on |-> <<>>, result |-> 0]

IdleObjects ==
  /\ held_blocks = {} /\ held_funs = {} /\ held_insts = {}
  /\ got_index = NoIndex /\ allocated = 0

IdleBuilder == builder = <<>> /\ call_log = <<>>
IdleTokens == tkz = <<>> /\ tk_input = <<>> /\ tk_call = <<>>

IdleTools ==
  tsv = <<>> /\ strings = <<>> /\ dbg_out = <<>> /\ analysis = <<>>

IdleUnits == IdleObjects /\ IdleBuilder /\ IdleTokens /\ IdleTools

InitType ==
  /\ pc = "type"
  /\ ty \in TypesOfDepth(MaxDepth)
  /\ ty_str = ""
  /\ ty_read = NoType
  /\ IdlePipe /\ IdleVisit /\ IdleUnits

TypeToStringStep ==
  /\ pc = "type"
  /\ ty_str' = TypeToString(ty)
  /\ pc' = "type_printed"
  /\ UNCHANGED <<ty, ty_read, pipeVars, visitVars, unitVars>>

TypeFromStringStep ==
  /\ pc = "type_printed"
  /\ ty_read' = TypeFromString(ty_str)
  /\ pc' = "type_read"
  /\ UNCHANGED <<ty, ty_str, pipeVars, visitVars, unitVars>>

NextType == TypeToStringStep \/ TypeFromStringStep

SpecType == InitType /\ [][NextType]_vars

\* C3: for every type t built from Int, Struct, Function and PtrTo,
\* Type::FromString(t.ToString()) equals t.
C3_TypeRoundTrip ==
  pc = "type_read" => (ty_read.ok /\ ty_read.val = ty)

(***************************************************************************)
(* Programs built through the constructors, as the fixture of ir_test.cc   *)
(* builds them                                                             *)
(***************************************************************************)
var_ == Variable(1, "foo", IntType)
varp_ == Variable(2, "foop", PtrTo(IntType))
fun_ == Variable(3, "fun", PtrTo(FunctionType(<<IntType>>)))
bar_ == Variable(4, "bar", PtrTo(Struct("foo")))

\* further variables a caller can make: globals of three types, a null
\* pointer, a pointer to a function that returns a function, a second object
\* named foop, and a variable whose name is a numeral
main_int_ == Variable(5, "@main", IntType)
main_intp_ == Variable(6, "@main", PtrTo(IntType))
main_fun_ == Variable(7, "@main", PtrTo(FunctionType(<<IntType>>)))
null_intp_ == Variable(8, "@nullptr", PtrTo(IntType))
ff_ == Variable(9, "ff", PtrTo(FunctionType(<<FunctionType(<<IntType>>)>>)))
foop_int_ == Variable(10, "foop", IntType)
seven_ == Variable(11, "7", IntType)

\* variables whose types name the struct bar: directly, and inside the
\* signature of a function type
barp_ == Variable(12, "b", PtrTo(Struct("bar")))
fs_ == Variable(13, "fs",
                PtrTo(FunctionType(<<IntType, PtrTo(Struct("bar"))>>)))

\* a second int, and a pointer to a function that takes an int
y_ == Variable(14, "y", IntType)
fun1_ == Variable(15, "fun1", PtrTo(FunctionType(<<IntType, IntType>>)))

FortyTwo == IntOperand(42)

\* the instructions of the fixture, by the codes MakeBasicBlock takes
FixtureInst(code) ==
  CASE code = "arith" -> ArithInst(var_, FortyTwo, FortyTwo, "kAdd")
    [] code = "cmp" -> CmpInst(var_, FortyTwo, FortyTwo, "kEqual")
    [] code = "phi" -> PhiInst(var_, <<FortyTwo, FortyTwo>>)
    [] code = "copy" -> CopyInst(var_, FortyTwo)
    [] code = "alloc" -> AllocInst(varp_)
    [] code = "addrof" -> AddrOfInst(varp_, var_)
    [] code = "load" -> LoadInst(var_, varp_)
    [] code = "store" -> StoreInst(varp_, FortyTwo)
    [] code = "gep" -> GepInst(varp_, bar_, IntOperand(0), "field")
    [] code = "select" -> SelectInst(var_, FortyTwo, FortyTwo, FortyTwo)
    [] code = "call" -> CallInst(var_, "foo", <<>>)
    [] code = "icall" -> ICallInst(var_, fun_, <<>>)
    [] code = "ret" -> RetInst(FortyTwo)
    [] code = "jump" -> JumpInst("foo")
    [] code = "branch" -> BranchInst(FortyTwo, "foo", "bar")

\* the same instructions with a global as the assignment target
GlobalTargetInst(code) ==
  CASE code = "arith@" -> ArithInst(main_int_, FortyTwo, FortyTwo, "kAdd")
    [] code = "cmp@" -> CmpInst(main_int_, FortyTwo, FortyTwo, "kEqual")
    [] code = "phi@" -> PhiInst(main_int_, <<FortyTwo, FortyTwo>>)
    [] code = "copy@" -> CopyInst(main_int_, FortyTwo)
    [] code = "alloc@" -> AllocInst(main_intp_)
    [] code = "addrof@" -> AddrOfInst(main_intp_, var_)
    [] code = "load@" -> LoadInst(main_int_, varp_)
    [] code = "store@" -> StoreInst(main_intp_, FortyTwo)
    [] code = "gep@" -> GepInst(main_intp_, bar_, IntOperand(0), "field")
    [] code = "gep0@" -> GepInst(main_intp_, varp_, IntOperand(0), "")
    [] code = "select@" -> SelectInst(main_int_, FortyTwo, FortyTwo, FortyTwo)
    [] code = "call@" -> CallInst(main_int_, "foo", <<>>)
    [] code = "icall@" -> ICallInst(main_int_, fun_, <<>>)

\* other instructions over the further variables
OtherInst(code) ==
  CASE code = "copy_fun" -> CopyInst(fun_, VarOperand(main_fun_))
    [] code = "copy_null" -> CopyInst(varp_, VarOperand(null_intp_))
    [] code = "call_ext" -> CallInst(var_, "ext", <<VarOperand(main_fun_)>>)
    [] code = "call_main" -> CallInst(var_, "main", <<>>)
    [] code = "alloc_ff" -> AllocInst(ff_)
    [] code = "copy_foop" -> CopyInst(foop_int_, FortyTwo)
    [] code = "copy_7" -> CopyInst(var_, VarOperand(seven_))
    [] code = "gep0" -> GepInst(varp_, varp_, IntOperand(0), "")
    [] code = "ret0" -> RetInst(IntOperand(0))
    [] code = "ret_foo" -> RetInst(VarOperand(var_))
    [] code = "jump_bar" -> JumpInst("bar")
    [] code = "ret_foop" -> RetInst(VarOperand(varp_))
    [] code = "alloc_bar" -> AllocInst(barp_)
    [] code = "alloc_fs" -> AllocInst(fs_)
    [] code = "call_ext_bar" -> CallInst(var_, "ext", <<VarOperand(barp_)>>)
    [] code = "arith_xy" ->
         ArithInst(var_, VarOperand(var_), VarOperand(y_), "kDivide")
    [] code = "arith_xx" ->
         ArithInst(y_, VarOperand(var_), VarOperand(var_), "kAdd")
    [] code = "cmp_y1" ->
         CmpInst(var_, VarOperand(y_), IntOperand(1), "kGreaterThan")
    [] code = "phi_xy" ->
         PhiInst(var_, <<VarOperand(var_), FortyTwo, VarOperand(y_)>>)
    [] code = "store_y" -> StoreInst(varp_, VarOperand(y_))
    [] code = "gep_y" -> GepInst(varp_, varp_, VarOperand(y_), "")
    [] code = "select_yx" ->
         SelectInst(var_, VarOperand(y_), VarOperand(var_), FortyTwo)
    [] code = "call_xp" ->
         CallInst(var_, "ext", <<VarOperand(var_), VarOperand(varp_)>>)
    [] code = "icall_y" -> ICallInst(var_, fun1_, <<VarOperand(y_)>>)
    [] code = "icall_1" -> ICallInst(var_, fun1_, <<IntOperand(1)>>)
    [] code = "branch_y" -> BranchInst(VarOperand(y_), "foo", "entry")
    [] code = "arith_p" ->
         ArithInst(var_, VarOperand(varp_), FortyTwo, "kAdd")
    [] code = "arith_ppp" ->
         ArithInst(varp_, VarOperand(varp_), VarOperand(varp_), "kAdd")
    [] code = "cmp_p" -> CmpInst(varp_, FortyTwo, FortyTwo, "kEqual")
    [] code = "phi_p" -> PhiInst(var_, <<VarOperand(varp_), FortyTwo>>)
    [] code = "copy_p" -> CopyInst(var_, VarOperand(varp_))
    [] code = "alloc_i" -> AllocInst(var_)
    [] code = "addrof_i" -> AddrOfInst(var_, var_)
    [] code = "load_i" -> LoadInst(var_, var_)
    [] code = "store_i" -> StoreInst(var_, FortyTwo)
    [] code = "store_pp" -> StoreInst(varp_, VarOperand(varp_))
    [] code = "gep_i" -> GepInst(varp_, var_, IntOperand(0), "")
    [] code = "gep_p" -> GepInst(varp_, varp_, VarOperand(varp_), "")
    [] code = "select_p" ->
         SelectInst(var_, VarOperand(varp_), FortyTwo, FortyTwo)
    [] code = "icall_i" -> ICallInst(var_, var_, <<>>)
    [] code = "ret_p" -> RetInst(VarOperand(varp_))

FixtureCodes ==
  {"arith", "cmp", "phi", "copy", "alloc", "addrof", "load", "store", "gep",
   "select", "call", "icall", "ret", "jump", "branch"}
GlobalTargetCodes ==
  {"arith@", "cmp@", "phi@", "copy@", "alloc@", "addrof@", "load@", "store@",
   "gep@", "gep0@", "select@", "call@", "icall@"}
OtherCodes ==
  {"copy_fun", "copy_null", "call_ext", "call_main", "alloc_ff", "copy_foop",
   "copy_7", "gep0", "ret0", "ret_foo", "jump_bar", "alloc_bar", "alloc_fs",
   "call_ext_bar", "ret_foop"}

InstOf(code) ==
  IF code \in FixtureCodes THEN FixtureInst(code)
  ELSE IF code \in GlobalTargetCodes THEN GlobalTargetInst(code)
  ELSE OtherInst(code)

\* IrTest::MakeBasicBlock; a block the constructor refuses is fatal there
MakeBasicBlock(label, codes) ==
  BasicBlock(label, [i \in 1..Len(codes) |-> Temp(InstOf(codes[i]))],
             NullPtr, "tmp:" \o label)

\* a function with the given parameters; blocks is a sequence of
\* [label, codes] records
MakeFunctionWith(name, parameters, blocks) ==
  Function(name, IntType, parameters,
           [i \in 1..Len(blocks) |->
              MakeBasicBlock(blocks[i].label, blocks[i].codes).val],
           "tmp:" \o name)

\* IrTest::MakeFunction
MakeFunction(name, blocks) == MakeFunctionWith(name, <<>>, blocks)

\* IrTest::MakeProgram; functions is a sequence of [name, parameters, blocks]
MakeProgram(struct_types, functions) ==
  Program(struct_types,
          [i \in 1..Len(functions) |->
             MakeFunctionWith(functions[i].name, functions[i].parameters,
                              functions[i].blocks).val])

Block(label, codes) == [label |-> label, codes |-> codes]
Fun(name, parameters, blocks) ==
  [name |-> name, parameters |-> parameters, blocks |-> blocks]
Input(struct_types, functions) ==
  [struct_types |-> struct_types, functions |-> functions]

\* struct tables: none; foo as in VisitorTest; foo and bar as in ToStringTest;
\* the field-less blah of MalformedProgram
NoStructs == EmptyMap
FooStruct == [foo |-> [field |-> IntType]]
FooBarStructs ==
  [foo |-> [field |-> IntType, field2 |-> PtrTo(IntType)],
   bar |-> [field |-> PtrTo(Struct("foo"))]]
BlahStruct == [blah |-> EmptyMap]

(***************************************************************************)
(* Spec: a caller builds a program through the constructors, prints it,    *)
(* parses the text and prints the result; or parses a text written by hand *)
(***************************************************************************)
MaxBody == 2
MaxLines == 2

\* the codes of the instructions that are no terminators
BodyCodes ==
  (FixtureCodes \ {"ret", "jump", "branch"}) \cup GlobalTargetCodes
  \cup {"copy_fun", "copy_null", "call_ext", "call_main", "alloc_ff",
        "copy_foop", "copy_7", "gep0"}

\* main() with the single block entry: up to MaxBody instructions and a ret
BodyInputs ==
  {Input(FooStruct,
         <<Fun("main", <<>>, <<Block("entry", Append(codes, "ret"))>>)>>) :
     codes \in SeqsUpTo(BodyCodes, MaxBody)}

\* the program of IrDeathTest.MalformedProgram
MalformedProgram ==
  Input(BlahStruct, <<Fun("fun", <<>>, <<Block("bar", <<"jump", "gep">>)>>)>>)

\* two functions and several blocks, after the program of IrTest.ToStringTest
TwoFunctions ==
  Input(FooBarStructs,
        <<Fun("foo", <<>>, <<Block("entry", <<"arith", "jump">>),
                             Block("foo", <<"gep", "ret">>)>>),
          Fun("main", <<>>, <<Block("entry", <<"call", "branch">>),
                              Block("foo", <<"jump_bar">>),
                              Block("bar", <<"ret">>)>>)>>)

\* main with parameters: one, the same object twice, a global; and a program
\* without main
ParameterInputs ==
  {Input(FooStruct,
         <<Fun(name, parameters, <<Block("entry", <<"ret_foo">>)>>)>>) :
     name \in {"main", "foo"},
     parameters \in {<<var_>>, <<var_, varp_>>, <<var_, var_>>,
                     <<main_int_>>}}

\* main with one instruction over a type that names the struct bar, in a
\* program that defines bar and in one that does not
StructCodes == {"alloc_bar", "alloc_fs", "call_ext_bar"}

StructInputs ==
  {Input(struct_types,
         <<Fun("main", <<>>, <<Block("entry", <<code, "ret">>)>>)>>) :
     struct_types \in {FooStruct, FooBarStructs}, code \in StructCodes}

\* main whose block entry has a terminator before its end, or none at its
\* end
TerminatorInputs ==
  {Input(FooStruct, <<Fun("main", <<>>, <<Block("entry", codes)>>)>>) :
     codes \in {<<"ret", "ret">>, <<"ret", "copy", "ret">>, <<"copy">>,
                <<"ret", "copy">>}}

Inputs ==
  BodyInputs \cup ParameterInputs \cup StructInputs \cup TerminatorInputs
  \cup {MalformedProgram, TwoFunctions}

\* texts written by hand: the lines of a body, the parameter lists
GlobalLines ==
  {"p:int[]* = $copy @foo:int[]*",
   "q:int* = $copy @nullptr:int*",
   "r:int** = $copy @nullptr:int**",
   "p:int* = $copy @foo:int*"}

SourceLines == GlobalLines \cup {"x:int = $copy x:int"}

SourceParams ==
  {"", "x:int", "x:int, x:int", "x:int, x:int*", "@foo:int[]*"}

FunctionText(name, params, lines) ==
  "function " \o name \o "(" \o params \o ") -> int {\nentry:\n"
  \o Join([i \in 1..Len(lines) |-> "  " \o lines[i] \o "\n"], "")
  \o "  $ret 42\n}\n\n"

\* bodies with a terminator in the middle
TerminatorLines ==
  {<<"$ret 0">>, <<"$ret 0", "x:int = $copy x:int">>, <<"$jump entry">>,
   <<"$branch 0 entry entry", "$ret 0">>}

FunctionTexts ==
  {FunctionText("main", params, lines) :
     params \in SourceParams, lines \in SeqsUpTo(SourceLines, MaxLines)}
  \cup {FunctionText("main", "", lines) : lines \in TerminatorLines}

\* the text of IrTest.FromStringGlobalVarsTest
GlobalVarsText ==
  "\n    function foo() -> int {\n    entry:\n"
  \o "      foo_fptr:int[]* = $copy @foo:int[]*\n"
  \o "      foo_null:int* = $copy @nullptr:int*\n"
  \o "      $ret 42\n    }\n\n"
  \o "    function main() -> int {\n    entry:\n"
  \o "      main_fptr:int[]* = $copy @foo:int[]*\n"
  \o "      main_null:int* = $copy @nullptr:int*\n"
  \o "      $ret 42\n    }\n  "

\* two functions that use globals, or main alone
ProgramTexts ==
  {FunctionText("foo", "", foo_lines) \o FunctionText("main", "", main_lines) :
     foo_lines \in SeqsUpTo(GlobalLines, MaxLines),
     main_lines \in SeqsUpTo(GlobalLines, MaxLines)}
  \cup FunctionTexts \cup {GlobalVarsText}

Init ==
  /\ pc = "start"
  /\ build_rtl \in BOOLEAN
  /\ built = NoProgram /\ printed = "" /\ parsed = NoParse /\ reprinted = ""
  /\ IdleType /\ IdleVisit /\ IdleUnits

\* the caller holds the program, unless a CHECK of the constructor failed
Constructed(program) ==
  /\ built' = program
  /\ pc' = IF program.ok THEN "constructed" ELSE "refused"

\* Program::Program on an input of the caller
Construct ==
  /\ pc = "start"
  /\ \E in \in Inputs :
       Constructed(MakeProgram(in.struct_types, in.functions))
  /\ UNCHANGED <<build_rtl, printed, parsed, reprinted,
               typeVars, visitVars, unitVars>>

\* Program::ToString on the constructed program
ProgramToStringStep ==
  /\ pc = "constructed"
  /\ printed' = ProgramToString(built.val)
  /\ pc' = "printed"
  /\ UNCHANGED <<build_rtl, built, parsed, reprinted,
               typeVars, visitVars, unitVars>>

\* a program text written by hand
WriteProgram ==
  /\ pc = "start"
  /\ printed' \in ProgramTexts
  /\ pc' = "written"
  /\ UNCHANGED <<build_rtl, built, parsed, reprinted,
               typeVars, visitVars, unitVars>>

\* a function text written by hand
WriteFunction ==
  /\ pc = "start"
  /\ printed' \in FunctionTexts
  /\ pc' = "written_function"
  /\ UNCHANGED <<build_rtl, built, parsed, reprinted,
               typeVars, visitVars, unitVars>>

\* what the caller of FromString holds: nothing when the process was ended
Parsed(kind, read) ==
  [ok |-> read.ok, kind |-> kind, val |-> IF read.ok THEN read.val ELSE <<>>]

\* Program::FromString
ProgramFromStringStep ==
  /\ pc \in {"printed", "written"}
  /\ parsed' = Parsed("program", ProgramFromString(printed, build_rtl))
  /\ pc' = "parsed"
  /\ UNCHANGED <<build_rtl, built, printed, reprinted,
               typeVars, visitVars, unitVars>>

\* Function::FromString
FunctionFromStringStep ==
  /\ pc = "written_function"
  /\ parsed' = Parsed("function", FunctionFromString(printed, build_rtl))
  /\ pc' = "parsed"
  /\ UNCHANGED <<build_rtl, built, printed, reprinted,
               typeVars, visitVars, unitVars>>

\* ToString on the result of FromString
Reprint ==
  /\ pc = "parsed"
  /\ parsed.ok
  /\ reprinted' = IF parsed.kind = "program" THEN ProgramToString(parsed.val)
                  ELSE FunctionToString(parsed.val)
  /\ pc' = "reprinted"
  /\ UNCHANGED <<build_rtl, built, printed, parsed,
               typeVars, visitVars, unitVars>>

Next ==
  \/ Construct
  \/ ProgramToStringStep
  \/ WriteProgram
  \/ WriteFunction
  \/ ProgramFromStringStep
  \/ FunctionFromStringStep
  \/ Reprint

Spec == Init /\ [][Next]_vars

(***************************************************************************)
(* The variables and instructions of a program, for the properties below   *)
(***************************************************************************)
OperandVars(op) == IF op.is_var THEN <<op.var>> ELSE <<>>

RECURSIVE OperandsVars(_)
OperandsVars(ops) ==
  IF ops = <<>> THEN <<>>
  ELSE OperandVars(Head(ops)) \o OperandsVars(Tail(ops))

\* the assignment target of an instruction: lhs, or dst of a store
TargetVars(i) ==
  IF i.op \in {"kRet", "kJump", "kBranch"} THEN <<>>
  ELSE IF i.op = "kStore" THEN <<i.dst>>
  ELSE <<i.lhs>>

\* the variables an instruction reads
UsedVars(i) ==
  CASE i.op \in {"kArith", "kCmp"} -> OperandVars(i.op1) \o OperandVars(i.op2)
    [] i.op = "kPhi" -> OperandsVars(i.ops)
    [] i.op = "kCopy" -> OperandVars(i.rhs)
    [] i.op = "kAlloc" -> <<>>
    [] i.op = "kAddrof" -> <<i.rhs>>
    [] i.op = "kLoad" -> <<i.src>>
    [] i.op = "kStore" -> OperandVars(i.value)
    [] i.op = "kGep" -> <<i.src_ptr>> \o OperandVars(i.index)
    [] i.op = "kSelect" ->
         OperandVars(i.condition) \o OperandVars(i.true_op)
         \o OperandVars(i.false_op)
    [] i.op = "kCall" -> OperandsVars(i.args)
    [] i.op = "kICall" -> <<i.func_ptr>> \o OperandsVars(i.args)
    [] i.op = "kRet" -> OperandVars(i.retval)
    [] i.op = "kJump" -> <<>>
    [] i.op = "kBranch" -> OperandVars(i.condition)

Range(q) == {q[i] : i \in 1..Len(q)}

\* the instructions (variants) of a function and of a program
FunctionInsts(f) ==
  UNION {{f.body_[l].body_[i].inst_ : i \in 1..Len(f.body_[l].body_)} :
           l \in DOMAIN f.body_}
ProgramInsts(p) ==
  UNION {FunctionInsts(p.functions_[n]) : n \in DOMAIN p.functions_}

\* the Variable objects that occur in the instructions of a function, and
\* with its parameters
InstVars(f) ==
  UNION {Range(TargetVars(i)) \cup Range(UsedVars(i)) : i \in FunctionInsts(f)}
FunctionVars(f) == Range(f.parameters_) \cup InstVars(f)

IsGlobal(var) == Char(var.name, 0) = "@"

\* a program with the identity of its Variable objects left out
EraseVar(var) == [var EXCEPT !.id = 0]
EraseOp(op) == [op EXCEPT !.var = EraseVar(@)]
EraseOps(ops) == [k \in 1..Len(ops) |-> EraseOp(ops[k])]
EraseInst(i) ==
  CASE i.op \in {"kArith", "kCmp"} ->
         [i EXCEPT !.lhs = EraseVar(@), !.op1 = EraseOp(@), !.op2 = EraseOp(@)]
    [] i.op = "kPhi" -> [i EXCEPT !.lhs = EraseVar(@), !.ops = EraseOps(@)]
    [] i.op = "kCopy" -> [i EXCEPT !.lhs = EraseVar(@), !.rhs = EraseOp(@)]
    [] i.op = "kAlloc" -> [i EXCEPT !.lhs = EraseVar(@)]
    [] i.op = "kAddrof" -> [i EXCEPT !.lhs = EraseVar(@), !.rhs = EraseVar(@)]
    [] i.op = "kLoad" -> [i EXCEPT !.lhs = EraseVar(@), !.src = EraseVar(@)]
    [] i.op = "kStore" -> [i EXCEPT !.dst = EraseVar(@), !.value = EraseOp(@)]
    [] i.op = "kGep" ->
         [i EXCEPT !.lhs = EraseVar(@), !.src_ptr = EraseVar(@),
                   !.index = EraseOp(@)]
    [] i.op = "kSelect" ->
         [i EXCEPT !.lhs = EraseVar(@), !.condition = EraseOp(@),
                   !.true_op = EraseOp(@), !.false_op = EraseOp(@)]
    [] i.op = "kCall" -> [i EXCEPT !.lhs = EraseVar(@), !.args = EraseOps(@)]
    [] i.op = "kICall" ->
         [i EXCEPT !.lhs = EraseVar(@), !.func_ptr = EraseVar(@),
                   !.args = EraseOps(@)]
    [] i.op = "kRet" -> [i EXCEPT !.retval = EraseOp(@)]
    [] i.op = "kJump" -> i
    [] i.op = "kBranch" -> [i EXCEPT !.condition = EraseOp(@)]

EraseFunction(f) ==
  [name |-> f.name_, return_type |-> f.return_type_,
   parameters |-> [k \in 1..Len(f.parameters_) |-> EraseVar(f.parameters_[k])],
   body |-> [l \in DOMAIN f.body_ |->
               [k \in 1..Len(f.body_[l].body_) |->
                  EraseInst(f.body_[l].body_[k].inst_)]]]

Structure(p) ==
  [struct_types |-> p.struct_types_,
   functions |-> [n \in DOMAIN p.functions_ |-> EraseFunction(p.functions_[n])]]

\* the program was built through the constructors and its text was parsed
RoundTripDone == built.ok /\ pc \in {"parsed", "reprinted"}

\* C1: for every string S that Program::ToString produces for a constructed
\* program, Program::FromString(S) succeeds and its ToString is exactly S.
C1_PrintParsePrint ==
  /\ RoundTripDone => parsed.ok
  /\ (built.ok /\ pc = "reprinted") => reprinted = printed

\* C2: for every program P the constructor accepts, Program::FromString of
\* P.ToString() does not fail and yields a program structurally equal to P
\* (same struct table, functions, blocks, instructions, operand names, types
\* and constants; the identity of the variable objects aside).
C2_ParsePrintStructure ==
  RoundTripDone => (parsed.ok /\ Structure(parsed.val) = Structure(built.val))

(***************************************************************************)
(* SpecVisit: Program::Visit delivers its callbacks to a visitor one by    *)
(* one                                                                     *)
(***************************************************************************)
MaxVisitBody == 1

VisitCodes == FixtureCodes \ {"ret", "jump", "branch"}

\* the program of IrTest.VisitorTest
VisitorTest ==
  Input(FooStruct, <<Fun("main", <<>>, <<Block("entry", <<"ret">>)>>)>>)

\* no struct or one, main alone or with foo, one or two blocks in main; and
\* the two structs and two functions of IrTest.ToStringTest
VisitInputs ==
  {Input(struct_types,
         others \o <<Fun("main", <<>>,
                         IF two THEN <<Block("entry", Append(codes, "jump")),
                                       Block("foo", <<"ret">>)>>
                         ELSE <<Block("entry", Append(codes, "ret"))>>)>>) :
     struct_types \in {NoStructs, FooStruct},
     others \in {<<>>, <<Fun("foo", <<>>, <<Block("entry", <<"ret">>)>>)>>},
     two \in BOOLEAN,
     codes \in SeqsUpTo(VisitCodes, MaxVisitBody)}
  \cup {TwoFunctions}

Visitable ==
  {r \in {MakeProgram(in.struct_types, in.functions) : in \in VisitInputs} :
     r.ok}

\* what the visitor learns from a callback: which one, and for which object
Received(c) ==
  [cb |-> c.cb, kind |-> c.kind,
   at |-> CASE c.cb \in {"VisitProgram", "VisitProgramPost"} -> "program"
            [] c.cb = "VisitStructType" -> c.arg.name
            [] OTHER -> c.arg.self]

InitVisit ==
  /\ pc = "visit"
  /\ built \in Visitable
  /\ LET calls == ProgramVisit(built.val)
     IN pending = [i \in 1..Len(calls) |-> Received(calls[i])]
  /\ order_ = <<>>
  /\ build_rtl = FALSE /\ printed = "" /\ parsed = NoParse /\ reprinted = ""
  /\ IdleType /\ IdleUnits

\* the traversal makes its next call, which is cb for an object of kind;
\* pending holds the calls still to be made, each as the visitor receives it
Deliver(cb, kinds) ==
  /\ pc = "visit"
  /\ pending # <<>>
  /\ Head(pending).cb = cb
  /\ Head(pending).kind \in kinds
  /\ order_' = Append(order_, Head(pending))
  /\ pending' = Tail(pending)
  /\ pc' = IF Tail(pending) = <<>> THEN "visited" ELSE "visit"
  /\ UNCHANGED <<pipeVars, typeVars, unitVars>>

KindNames ==
  {"ArithInst", "CmpInst", "PhiInst", "CopyInst", "AllocInst", "AddrOfInst",
   "LoadInst", "StoreInst", "GepInst", "SelectInst", "CallInst", "ICallInst",
   "RetInst", "JumpInst", "BranchInst"}

OnVisitProgram == Deliver("VisitProgram", {""})
OnVisitStructType == Deliver("VisitStructType", {""})
OnVisitFunction == Deliver("VisitFunction", {""})
OnVisitBasicBlock == Deliver("VisitBasicBlock", {""})
OnVisitInstruction == Deliver("VisitInst", {"Instruction"})
OnVisitInstKind == Deliver("VisitInst", KindNames)
OnVisitInstPost == Deliver("VisitInstPost", {"Instruction"})
OnVisitBasicBlockPost == Deliver("VisitBasicBlockPost", {""})
OnVisitFunctionPost == Deliver("VisitFunctionPost", {""})
OnVisitProgramPost == Deliver("VisitProgramPost", {""})

NextVisit ==
  \/ OnVisitProgram
  \/ OnVisitStructType
  \/ OnVisitFunction
  \/ OnVisitBasicBlock
  \/ OnVisitInstruction
  \/ OnVisitInstKind
  \/ OnVisitInstPost
  \/ OnVisitBasicBlockPost
  \/ OnVisitFunctionPost
  \/ OnVisitProgramPost

SpecVisit == InitVisit /\ [][NextVisit]_vars

\* the TestVisitor of IrTest.VisitorTest: the number it pushes for a callback,
\* nothing for the callbacks it does not override
TestVisitorPush(r) ==
  CASE r.cb = "VisitProgram" -> <<1>>
    [] r.cb = "VisitProgramPost" -> <<2>>
    [] r.cb = "VisitStructType" -> <<3>>
    [] r.cb = "VisitFunction" -> <<4>>
    [] r.cb = "VisitFunctionPost" -> <<5>>
    [] r.cb = "VisitBasicBlock" -> <<6>>
    [] r.cb = "VisitBasicBlockPost" -> <<7>>
    [] r.cb = "VisitInst" /\ r.kind = "Instruction" -> <<9>>
    [] r.cb = "VisitInst" /\ r.kind = "RetInst" -> <<8>>
    [] OTHER -> <<>>

\* TestVisitor::GetOrder after the callbacks received
GetOrder(received) ==
  Flatten([i \in 1..Len(received) |-> TestVisitorPush(received[i])])

\* the callbacks in the order the documentation of the traversal gives them
ExpectedInst(inst) ==
  << [cb |-> "VisitInst", kind |-> "Instruction", at |-> inst.self],
     [cb |-> "VisitInst", kind |-> KindOf(GetOpcode(inst)), at |-> inst.self],
     [cb |-> "VisitInstPost", kind |-> "Instruction", at |-> inst.self] >>

ExpectedBlock(bb) ==
  <<[cb |-> "VisitBasicBlock", kind |-> "", at |-> bb.self]>>
  \o Flatten([i \in 1..Len(bb.body_) |-> ExpectedInst(bb.body_[i])])
  \o <<[cb |-> "VisitBasicBlockPost", kind |-> "", at |-> bb.self]>>

ExpectedBlocks(func, labels) ==
  Flatten([i \in 1..Len(labels) |-> ExpectedBlock(func.body_[labels[i]])])

ExpectedFunction(func) ==
  <<[cb |-> "VisitFunction", kind |-> "", at |-> func.self]>>
  \o ExpectedBlocks(func, SortedKeys(DOMAIN func.body_))
  \o <<[cb |-> "VisitFunctionPost", kind |-> "", at |-> func.self]>>

ExpectedStructs(snames) ==
  [i \in 1..Len(snames) |->
     [cb |-> "VisitStructType", kind |-> "", at |-> snames[i]]]

ExpectedFunctions(program, fnames) ==
  Flatten([i \in 1..Len(fnames) |->
             ExpectedFunction(program.functions_[fnames[i]])])

Expected(program) ==
  <<[cb |-> "VisitProgram", kind |-> "", at |-> "program"]>>
  \o ExpectedStructs(SortedKeys(DOMAIN program.struct_types_))
  \o ExpectedFunctions(program, SortedKeys(DOMAIN program.functions_))
  \o <<[cb |-> "VisitProgramPost", kind |-> "", at |-> "program"]>>

IsPrefix(q, r) == Len(q) <= Len(r) /\ q = SubSeq(r, 1, Len(q))

\* the post callback of a pre callback
PostOf ==
  [VisitProgram |-> "VisitProgramPost", VisitFunction |-> "VisitFunctionPost",
   VisitBasicBlock |-> "VisitBasicBlockPost", VisitInst |-> "VisitInstPost"]

\* the pre calls that have a post call: the generic one for an instruction
IsPre(r) ==
  /\ r.cb \in DOMAIN PostOf
  /\ r.cb = "VisitInst" => r.kind = "Instruction"

VisitorTestProgram ==
  MakeProgram(VisitorTest.struct_types, VisitorTest.functions)

VisitorTestDone == pc = "visited" /\ built = VisitorTestProgram

ParseDone == pc \in {"parsed", "reprinted"} /\ parsed.ok

\* the functions FromString returned
ParsedFunctions ==
  IF parsed.kind = "program"
  THEN {parsed.val.functions_[n] : n \in DOMAIN parsed.val.functions_}
  ELSE {parsed.val}

ParsedVars == UNION {FunctionVars(f) : f \in ParsedFunctions}

\* C6: in every function the parser returns, two occurrences of a variable
\* with the same name (in the parameter list, as lhs or as operand) have the
\* same type and are the same variable object.
C6_SameNameSameVariable ==
  ParseDone =>
    \A f \in ParsedFunctions :
      \A v, w \in FunctionVars(f) : v.name = w.name => v = w

\* the text has a global foo of two types
ConflictingGlobals ==
  /\ Find(printed, "@foo:int[]*", 0) # Npos
  /\ Find(printed, "@foo:int*", 0) # Npos

\* C7: within one Program::FromString, all occurrences of a global @name
\* denote one variable object and a later occurrence with another type is
\* fatal; two occurrences of @nullptr are the same object iff their types are
\* equal; local names are fresh per function; the program of
\* FromStringGlobalVarsTest has exactly 6 distinct variable objects.
C7_GlobalIdentity ==
  (pc \in {"parsed", "reprinted"} /\ parsed.kind = "program") =>
    /\ parsed.ok =>
         /\ \A v, w \in ParsedVars :
              (IsGlobal(v) /\ v.name # "@nullptr" /\ v.name = w.name)
                => v = w
         /\ \A v, w \in ParsedVars :
              (v.name = "@nullptr" /\ w.name = "@nullptr")
                => (v.id = w.id <=> v.type = w.type)
         /\ \A f, g \in ParsedFunctions :
              f # g => \A v \in FunctionVars(f), w \in FunctionVars(g) :
                         ~IsGlobal(v) => v.id # w.id
    /\ printed = GlobalVarsText =>
         parsed.ok /\ Cardinality({v.id : v \in ParsedVars}) = 6
    /\ ConflictingGlobals => ~parsed.ok

\* the text of FromStringGlobalVarsTest has been parsed
C7_Witness ==
  /\ pc = "parsed" /\ parsed.ok /\ parsed.kind = "program"
  /\ printed = GlobalVarsText
  /\ Cardinality(ParsedVars) = 6

\* the globals other than @nullptr that occur in the instructions of p
ReferencedGlobals(p) ==
  {v \in UNION {Range(TargetVars(i)) \cup Range(UsedVars(i)) :
                  i \in ProgramInsts(p)} :
     IsGlobal(v) /\ v.name # "@nullptr"}

\* C8: after a Program is constructed, func_ptrs() has an entry for f iff a
\* variable named @f occurs as lhs or operand of some instruction (arguments
\* of calls included, also calls of functions the program does not define),
\* and the entry is that variable object.
C8_FuncPtrs ==
  pc = "constructed" =>
    /\ DOMAIN built.val.func_ptrs_
         = {Tail(v.name) : v \in ReferencedGlobals(built.val)}
    /\ \A v \in ReferencedGlobals(built.val) :
         Tail(v.name) \in DOMAIN built.val.func_ptrs_
           => built.val.func_ptrs_[Tail(v.name)] = v

\* the lines of a text, each without its newline
RECURSIVE Lines(_)
LinesFrom(text, end) ==
  IF end = Npos THEN (IF text = "" THEN <<>> ELSE <<text>>)
  ELSE <<SubSeq(text, 1, end)>> \o Lines(SubSeq(text, end + 2, Len(text)))

Lines(text) == LinesFrom(text, Find(text, "\n", 0))

\* the constructor refused the program of IrDeathTest.MalformedProgram
MalformedRefused ==
  /\ pc = "refused"
  /\ built.val.struct_types_ = BlahStruct
  /\ DOMAIN built.val.functions_ = {"fun"}

StructuralLines ==
  << "Struct type can't have empty fields: blah",
     "Function must have a basic block named 'entry': fun",
     "Basic block does not end in a terminator instruction: fun::bar",
     "Basic block contains a terminator instruction before its end: fun::bar",
     "Basic block 'fun::bar' jumps to nonexistent basic block 'foo'" >>

C10_NoGlobalTarget ==
  pc = "constructed" =>
    /\ \A i \in ProgramInsts(built.val) :
         \A v \in Range(TargetVars(i)) : ~IsGlobal(v)
    /\ \A n \in DOMAIN built.val.functions_ :
         \A v \in Range(built.val.functions_[n].parameters_) : ~IsGlobal(v)

\* the programs a caller holds: the one the constructor returned, and the one
\* Program::FromString returned
HeldPrograms ==
  (IF pc \in {"constructed", "printed"} THEN {built.val} ELSE {})
  \cup (IF ParseDone /\ parsed.kind = "program" THEN {parsed.val} ELSE {})

\* the variables of a program: parameters, targets and operands
ProgramVars(p) ==
  UNION {FunctionVars(p.functions_[n]) : n \in DOMAIN p.functions_}

\* the type of a pointer to the function f
FunctionPtrType(f) ==
  PtrTo(FunctionType(<<f.return_type_>>
                     \o [i \in 1..Len(f.parameters_) |->
                           f.parameters_[i].type]))

\* C11: in every successfully constructed Program, every variable named @f
\* with f other than nullptr refers to a function f of the program and its
\* type is a pointer to the function type made of f's return type followed
\* by f's parameter types.
C11_GlobalsAreFunctionPtrs ==
  \A p \in HeldPrograms :
    \A v \in ProgramVars(p) :
      (IsGlobal(v) /\ v.name # "@nullptr") =>
        /\ Tail(v.name) \in DOMAIN p.functions_
        /\ v.type = FunctionPtrType(p.functions_[Tail(v.name)])

\* the struct names a type mentions, at any depth
RECURSIVE StructNamesOf(_)
StructNamesOf(t) ==
  CASE t.base = "kInt" -> {}
    [] t.base = "kStruct" -> {t.name}
    [] t.base = "kFunc" ->
         UNION {StructNamesOf(t.types[i]) : i \in 1..Len(t.types)}

\* the types of a program: of its struct fields, return types, parameters,
\* and of the variables of its instructions
ProgramTypes(p) ==
  UNION {{p.struct_types_[s][f] : f \in DOMAIN p.struct_types_[s]} :
           s \in DOMAIN p.struct_types_}
  \cup {p.functions_[n].return_type_ : n \in DOMAIN p.functions_}
  \cup {v.type : v \in ProgramVars(p)}

\* C12: in every successfully constructed Program, every struct name that
\* occurs in the type of a struct field, parameter, return type or
\* instruction variable or operand, at any nesting depth, is a key of
\* struct_types().
C12_StructsDefined ==
  \A p \in HeldPrograms :
    \A t \in ProgramTypes(p) :
      StructNamesOf(t) \subseteq DOMAIN p.struct_types_

\* the last instruction of the body is a ret, jump or branch and no earlier
\* one is
EndsInOnlyTerminator(body) ==
  /\ body # <<>>
  /\ \A i \in 1..Len(body) :
       body[i].inst_.op \in {"kRet", "kJump", "kBranch"} <=> i = Len(body)

WellTerminated(f) ==
  \A l \in DOMAIN f.body_ : EndsInOnlyTerminator(f.body_[l].body_)

\* C13: in every successfully constructed Program, and in every basic block
\* the parser returns, the last instruction of each basic block is a
\* terminator (ret, jump or branch) and no earlier instruction is.
C13_Terminators ==
  /\ \A p \in HeldPrograms :
       \A n \in DOMAIN p.functions_ : WellTerminated(p.functions_[n])
  /\ ParseDone => \A f \in ParsedFunctions : WellTerminated(f)

\* a constructed program with jumps, a branch and rets was printed and
\* parsed: the caller holds both programs
C13_Witness ==
  /\ pc = "parsed" /\ parsed.ok /\ parsed.kind = "program"
  /\ {"kRet", "kJump", "kBranch", "kArith"}
       \subseteq {i.op : i \in ProgramInsts(parsed.val)}
  /\ Cardinality(ProgramInsts(built.val)) > 4

(***************************************************************************)
(* SpecObjects: a caller makes and copies instructions, basic blocks and   *)
(* functions, builds a program of a function, and asks instructions for    *)
(* their index.  An object is a record whose self field is its address.    *)
(***************************************************************************)
MaxObjects == 3
MaxElements == 7

\* the address of the n-th object the caller makes
ObjectAddr(n) == "o" \o IntToString(n)

\* the implicitly defined copy constructor of Instruction: a member-wise copy
InstructionCopy(inst, self) == [inst EXCEPT !.self = self]

\* the i with &parent_->body()[0] + i == this
ElementIndexes(inst) ==
  {i \in 0..(MaxElements - 1) : inst.self = ElementAddr(inst.parent_, i)}

\* std::distance of two pointers that do not point into the same array is
\* undefined: any value
AnyDistance == (0 - MaxElements)..MaxElements

\* Instruction::GetIndex: the values it can return
GetIndex(inst) ==
  IF inst.parent_ = NullPtr THEN {-1}
  ELSE IF ElementIndexes(inst) # {} THEN ElementIndexes(inst)
  ELSE AnyDistance

\* the body of IrTest.InstIndexInBasicBlockTest, and a shorter one
IndexTestCodes == <<"arith", "cmp", "phi", "copy", "alloc", "load", "jump">>
ObjectBodies == {<<"arith", "ret">>, IndexTestCodes}
ObjectLabels == {"entry", "exit"}

Temps(codes) == [i \in 1..Len(codes) |-> Temp(InstOf(codes[i]))]

\* all BasicBlock and Instruction objects there are
BlocksOf(f) == {f.body_[l] : l \in DOMAIN f.body_}
ProgramBlocks ==
  IF built.ok
  THEN UNION {BlocksOf(built.val.functions_[n]) :
                n \in DOMAIN built.val.functions_}
  ELSE {}
AllBlocks ==
  held_blocks \cup UNION {BlocksOf(f) : f \in held_funs} \cup ProgramBlocks
AllInstructions ==
  held_insts \cup UNION {Range(bb.body_) : bb \in AllBlocks}

InitObjects ==
  /\ pc = "objects"
  /\ IdleObjects /\ IdleType /\ IdlePipe /\ IdleVisit
  /\ IdleBuilder /\ IdleTokens
  /\ IdleTools

\* the caller holds the object, unless a CHECK of its constructor failed
Allocated(made, blocks, funs, insts) ==
  /\ pc' = IF made.ok THEN "objects" ELSE "aborted"
  /\ allocated' = IF made.ok THEN allocated + 1 ELSE allocated
  /\ held_blocks' = IF made.ok THEN held_blocks \cup blocks ELSE held_blocks
  /\ held_funs' = IF made.ok THEN held_funs \cup funs ELSE held_funs
  /\ held_insts' = IF made.ok THEN held_insts \cup insts ELSE held_insts
  /\ UNCHANGED <<got_index, typeVars, pipeVars, restVars, builderVars,
                 tokenVars>>

BlockMade(made) == Allocated(made, {made.val}, {}, {})
FunctionMade(made) == Allocated(made, {}, {made.val}, {})
InstructionMade(inst) == Allocated([ok |-> TRUE], {}, {}, {inst})

\* BasicBlock::BasicBlock(label, body)
NewBasicBlock ==
  /\ pc = "objects" /\ allocated < MaxObjects
  /\ \E label \in ObjectLabels \cup {""}, codes \in ObjectBodies \cup {<<>>} :
       BlockMade(BasicBlock(label, Temps(codes), NullPtr,
                            ObjectAddr(allocated + 1)))

\* BasicBlock::BasicBlock(const BasicBlock&)
CopyBasicBlock ==
  /\ pc = "objects" /\ allocated < MaxObjects
  /\ \E bb \in AllBlocks :
       BlockMade([ok |-> TRUE,
                  val |-> BasicBlockCopy(bb, ObjectAddr(allocated + 1))])

\* Function::Function(name, return_type, parameters, body) on blocks the
\* caller holds
NewFunction ==
  /\ pc = "objects" /\ allocated < MaxObjects
  /\ \E name \in {"main", ""}, body \in SeqsUpTo(held_blocks, 2) :
       FunctionMade(Function(name, IntType, <<>>, body,
                             ObjectAddr(allocated + 1)))

\* Function::Function(const Function&)
CopyFunction ==
  /\ pc = "objects" /\ allocated < MaxObjects
  /\ \E func \in held_funs :
       FunctionMade([ok |-> TRUE,
                     val |-> FunctionCopy(func, ObjectAddr(allocated + 1))])

\* Program::Program(struct_types, {func})
NewProgram ==
  /\ pc = "objects" /\ built = NoProgram
  /\ \E func \in held_funs : Constructed(Program(FooStruct, <<func>>))
  /\ UNCHANGED <<build_rtl, printed, parsed, reprinted, typeVars, visitVars,
                 unitVars>>

\* Instruction(const RetInst&, parent) and
\* Instruction(const Instruction&, parent)
NewInstruction ==
  /\ pc = "objects" /\ allocated < MaxObjects
  /\ \E parent \in {NullPtr} \cup {bb.self : bb \in AllBlocks} :
       InstructionMade(Instruction(InstOf("ret"), parent,
                                   ObjectAddr(allocated + 1)))

\* "Instruction copy = inst;"
CopyInstruction ==
  /\ pc = "objects" /\ allocated < MaxObjects
  /\ \E inst \in AllInstructions :
       InstructionMade(InstructionCopy(inst, ObjectAddr(allocated + 1)))

\* inst.GetIndex()
CallGetIndex ==
  /\ pc = "objects"
  /\ \E inst \in AllInstructions :
       \E result \in GetIndex(inst) :
         got_index' = [called |-> TRUE, on |-> inst, result |-> result]
  /\ UNCHANGED <<pc, held_blocks, held_funs, held_insts, allocated, typeVars,
                 pipeVars, restVars, builderVars, tokenVars>>

NextObjects ==
  \/ NewBasicBlock
  \/ CopyBasicBlock
  \/ NewFunction
  \/ CopyFunction
  \/ NewProgram
  \/ NewInstruction
  \/ CopyInstruction
  \/ CallGetIndex

SpecObjects == InitObjects /\ [][NextObjects]_vars

\* every instruction of the body points back to the block
BlockConsistent(bb) ==
  \A i \in 1..Len(bb.body_) : bb.body_[i].parent_ = bb.self

\* every block of the body points back to the function
FunctionConsistent(func) ==
  \A bb \in BlocksOf(func) : bb.parent_ = func.self /\ BlockConsistent(bb)

\* the Instruction objects of a function
FunctionInstructions(func) == UNION {Range(bb.body_) : bb \in BlocksOf(func)}

\* C14: for every BasicBlock object made by its constructor or its copy
\* constructor, every instruction of its body has that block as parent; for
\* every Function object made by its constructor or its copy constructor,
\* every block of its body has that function as parent; and in a constructed
\* Program inst.parent()->parent() is the enclosing function.
C14_BackPointers ==
  /\ \A bb \in held_blocks : BlockConsistent(bb)
  /\ \A func \in held_funs : FunctionConsistent(func)
  /\ built.ok =>
       \A n \in DOMAIN built.val.functions_ :
         \A inst \in FunctionInstructions(built.val.functions_[n]) :
           \E bb \in ProgramBlocks :
             /\ bb.self = inst.parent_
             /\ bb.parent_ = built.val.functions_[n].self

\* the caller holds a function, a copy of one of its blocks, and a program
\* made of the function, which holds a copy of it
C14_Witness ==
  /\ built.ok
  /\ \E func \in held_funs :
       /\ built.val.functions_[func.name_].self # func.self
       /\ \E bb \in held_blocks, fb \in BlocksOf(func) :
            /\ bb.parent_ = func.self /\ bb.self # fb.self
            /\ bb.label_ = fb.label_ /\ Len(bb.body_) > 1

\* C15: GetIndex returns -1 for an instruction whose parent is null, and for
\* any Instruction object whose parent is not null it returns the position i
\* with 0 <= i < body size such that parent()->body()[i] is that instruction.
C15_GetIndex ==
  got_index.called =>
    IF got_index.on.parent_ = NullPtr THEN got_index.result = -1
    ELSE \E bb \in AllBlocks :
           /\ bb.self = got_index.on.parent_
           /\ got_index.result \in 0..(Len(bb.body_) - 1)
           /\ bb.body_[got_index.result + 1].self = got_index.on.self

(***************************************************************************)
(* ir::Builder (irbuilder.cc).  A member function gives the builder after  *)
(* the call, or ok = FALSE when one of its CHECKs failed.                  *)
(***************************************************************************)
NewBuilder ==
  [struct_types_ |-> EmptyMap, functions_ |-> <<>>,
   curr_function_name_ |-> "", curr_function_rettype_ |-> IntType,
   curr_function_parameters_ |-> <<>>, curr_function_body_ |-> <<>>,
   curr_bb_label_ |-> "", curr_bb_body_ |-> <<>>]

Checked(ok, b) == [ok |-> ok, b |-> b]

AddStructType(b, type_name, fields) ==
  IF type_name \in DOMAIN b.struct_types_ \/ DOMAIN fields = {}
  THEN Checked(FALSE, b)
  ELSE Checked(TRUE, [b EXCEPT !.struct_types_ = MapPut(@, type_name, fields)])

\* "curr_function_body_.emplace_back(curr_bb_label_, curr_bb_body_);" and
\* the statements after it
BlockEmplaced(b, made) ==
  IF made.ok
  THEN Checked(TRUE, [b EXCEPT !.curr_function_body_ = Append(@, made.val),
                               !.curr_bb_label_ = "", !.curr_bb_body_ = <<>>])
  ELSE Checked(FALSE, b)

FinalizeCurrentBasicBlock(b) ==
  IF b.curr_bb_label_ = "" THEN Checked(FALSE, b)
  ELSE BlockEmplaced(b, BasicBlock(b.curr_bb_label_, b.curr_bb_body_, NullPtr,
                                   "tmp:" \o b.curr_bb_label_))

\* "functions_.emplace_back(...);" and the statements after it
FunctionEmplaced(b, made) ==
  IF made.ok
  THEN Checked(TRUE, [b EXCEPT !.functions_ = Append(@, made.val),
                               !.curr_function_name_ = "",
                               !.curr_function_rettype_ = IntType,
                               !.curr_function_parameters_ = <<>>,
                               !.curr_function_body_ = <<>>])
  ELSE Checked(FALSE, b)

FinalizeCurrentFunction(b) ==
  IF b.curr_function_name_ = "" THEN Checked(FALSE, b)
  ELSE FunctionEmplaced(b, Function(b.curr_function_name_,
                                    b.curr_function_rettype_,
                                    b.curr_function_parameters_,
                                    b.curr_function_body_,
                                    "tmp:" \o b.curr_function_name_))

\* "FinalizeCurrentBasicBlock(); FinalizeCurrentFunction();"
FunctionAfterBlock(r) == IF r.ok THEN FinalizeCurrentFunction(r.b) ELSE r
FinalizeBoth(b) == FunctionAfterBlock(FinalizeCurrentBasicBlock(b))

FunctionStarted(r, name, return_type) ==
  IF r.ok
  THEN Checked(TRUE, [r.b EXCEPT !.curr_function_name_ = name,
                                 !.curr_function_rettype_ = return_type])
  ELSE r

StartFunction(b, name, return_type) ==
  IF name = "" THEN Checked(FALSE, b)
  ELSE FunctionStarted(IF b.curr_bb_label_ # "" THEN FinalizeBoth(b)
                       ELSE Checked(TRUE, b),
                       name, return_type)

\* a variant without the CHECK_NE
AddParameterAnywhere(b, param) ==
  Checked(TRUE, [b EXCEPT !.curr_function_parameters_ = Append(@, param)])

AddParameter(b, param) ==
  IF b.curr_function_name_ = "" THEN Checked(FALSE, b)
  ELSE Checked(TRUE,
               [b EXCEPT !.curr_function_parameters_ = Append(@, param)])

BlockStarted(r, label) ==
  IF r.ok THEN Checked(TRUE, [r.b EXCEPT !.curr_bb_label_ = label]) ELSE r

StartBasicBlock(b, label) ==
  IF label = "" \/ b.curr_function_name_ = "" THEN Checked(FALSE, b)
  ELSE BlockStarted(IF b.curr_bb_label_ # ""
                    THEN FinalizeCurrentBasicBlock(b)
                    ELSE Checked(TRUE, b),
                    label)

AddInstruction(b, inst) ==
  IF b.curr_bb_label_ = "" THEN Checked(FALSE, b)
  ELSE Checked(TRUE, [b EXCEPT !.curr_bb_body_ = Append(@, inst)])

\* "return Program(struct_types_, functions_);"
ProgramReturned(r) ==
  IF r.ok
  THEN [ok |-> TRUE, b |-> r.b,
        program |-> Program(r.b.struct_types_, r.b.functions_)]
  ELSE [ok |-> FALSE, b |-> r.b, program |-> NoProgram]

FinalizeProgram(b) == ProgramReturned(FinalizeBoth(b))

(***************************************************************************)
(* SpecBuilder: a caller makes a Builder and calls its member functions in *)
(* any order, at most MaxCalls in all and each at most MaxCallsEach times, *)
(* until FinalizeProgram returns or a CHECK ends the process               *)
(***************************************************************************)
MaxCalls == 7
MaxCallsEach == 2

\* the functions a caller starts: main returns int, foo returns int*
BuilderFunctions ==
  {[name |-> "main", return_type |-> IntType],
   [name |-> "foo", return_type |-> PtrTo(IntType)],
   [name |-> "", return_type |-> IntType]}
BuilderParams == {var_, varp_}
BuilderLabels == {"entry", "foo", ""}
BuilderCodes == {"ret", "ret_foop"}
BuilderFields == {FooStruct.foo, EmptyMap}

\* an entry of the log: the member function and its arguments
Called(call, name, type, var, code, fields) ==
  [call |-> call, name |-> name, type |-> type, var |-> var, code |-> code,
   fields |-> fields]

CallsOf(call) ==
  Cardinality({i \in 1..Len(call_log) : call_log[i].call = call})

InitBuilder ==
  /\ pc = "building"
  /\ builder = NewBuilder /\ call_log = <<>>
  /\ IdleObjects /\ IdleTokens /\ IdleType /\ IdlePipe /\ IdleVisit
  /\ IdleTools

\* the call returned the builder, or a CHECK ended the process
BuilderCalled(r, c) ==
  /\ pc = "building"
  /\ Len(call_log) < MaxCalls - 1
  /\ CallsOf(c.call) < MaxCallsEach
  /\ builder' = r.b
  /\ call_log' = Append(call_log, c)
  /\ pc' = IF r.ok THEN "building" ELSE "aborted"
  /\ UNCHANGED <<typeVars, pipeVars, restVars, objectVars, tokenVars>>

CallAddStructType ==
  \E fields \in BuilderFields :
    BuilderCalled(AddStructType(builder, "foo", fields),
                  Called("AddStructType", "foo", IntType, NullVar, "", fields))

CallStartFunction ==
  \E f \in BuilderFunctions :
    BuilderCalled(StartFunction(builder, f.name, f.return_type),
                  Called("StartFunction", f.name, f.return_type, NullVar, "",
                         EmptyMap))

CallAddParameter ==
  \E param \in BuilderParams :
    BuilderCalled(AddParameter(builder, param),
                  Called("AddParameter", "", IntType, param, "", EmptyMap))

CallStartBasicBlock ==
  \E label \in BuilderLabels :
    BuilderCalled(StartBasicBlock(builder, label),
                  Called("StartBasicBlock", label, IntType, NullVar, "",
                         EmptyMap))

CallAddInstruction ==
  \E code \in BuilderCodes :
    BuilderCalled(AddInstruction(builder, Temp(InstOf(code))),
                  Called("AddInstruction", "", IntType, NullVar, code,
                         EmptyMap))

\* FinalizeProgram returned the program, or a CHECK ended the process
ProgramFinalized(r) ==
  /\ pc = "building"
  /\ builder' = r.b
  /\ call_log' = Append(call_log, Called("FinalizeProgram", "", IntType,
                                         NullVar, "", EmptyMap))
  /\ built' = r.program
  /\ pc' = IF r.ok /\ r.program.ok THEN "finalized" ELSE "aborted"
  /\ UNCHANGED <<build_rtl, printed, parsed, reprinted, typeVars, restVars,
                 objectVars, tokenVars>>

CallFinalizeProgram == ProgramFinalized(FinalizeProgram(builder))

NextBuilder ==
  \/ CallAddStructType
  \/ CallStartFunction
  \/ CallAddParameter
  \/ CallStartBasicBlock
  \/ CallAddInstruction
  \/ CallFinalizeProgram

SpecBuilder == InitBuilder /\ [][NextBuilder]_vars

\* what the calls of the log ask for: the functions started, each with the
\* parameters, blocks and instructions given until the next StartFunction
Noted(funs, c) ==
  CASE c.call = "StartFunction" ->
         Append(funs, [name |-> c.name, return_type |-> c.type,
                       parameters |-> <<>>, blocks |-> <<>>])
    [] c.call = "AddParameter" ->
         [funs EXCEPT ![Len(funs)].parameters = Append(@, c.var)]
    [] c.call = "StartBasicBlock" ->
         [funs EXCEPT ![Len(funs)].blocks =
            Append(@, [label |-> c.name, codes |-> <<>>])]
    [] c.call = "AddInstruction" ->
         [funs EXCEPT ![Len(funs)].blocks =
            [@ EXCEPT ![Len(@)].codes = Append(@, c.code)]]
    [] OTHER -> funs

RECURSIVE Requested(_, _)
Requested(funs, log) ==
  IF log = <<>> THEN funs
  ELSE Requested(Noted(funs, Head(log)), Tail(log))

\* the block of func that was requested as e
HasBlock(func, e) ==
  /\ e.label \in DOMAIN func.body_
  /\ [i \in 1..Len(func.body_[e.label].body_) |->
        func.body_[e.label].body_[i].inst_]
       = [i \in 1..Len(e.codes) |-> InstOf(e.codes[i])]

\* the function of program p that was requested as e
HasFunction(p, e) ==
  /\ e.name \in DOMAIN p.functions_
  /\ p.functions_[e.name].return_type_ = e.return_type
  /\ p.functions_[e.name].parameters_ = e.parameters
  /\ DOMAIN p.functions_[e.name].body_
       = {e.blocks[i].label : i \in 1..Len(e.blocks)}
  /\ \A i \in 1..Len(e.blocks) : HasBlock(p.functions_[e.name], e.blocks[i])

\* C16: when FinalizeProgram returns, the program has exactly the functions
\* named by the StartFunction calls, each with the return type given there,
\* the parameters added until the next StartFunction in call order, and the
\* blocks started in that interval with their instructions in order.
C16_BuilderResult ==
  pc = "finalized" =>
    /\ DOMAIN built.val.functions_
         = {c.name : c \in {d \in Range(call_log) : d.call = "StartFunction"}}
    /\ \A e \in Range(Requested(<<>>, call_log)) : HasFunction(built.val, e)

\* a misuse of the builder b by the call c
Misuse(b, c) ==
  \/ c.call \in {"AddParameter", "StartBasicBlock"}
       /\ b.curr_function_name_ = ""
  \/ c.call = "AddInstruction" /\ b.curr_bb_label_ = ""
  \/ c.call = "FinalizeProgram"
       /\ (b.curr_function_name_ = "" \/ b.curr_bb_label_ = "")
  \/ c.call = "AddStructType"
       /\ (c.name \in DOMAIN b.struct_types_ \/ DOMAIN c.fields = {})
  \/ c.call \in {"StartFunction", "StartBasicBlock"} /\ c.name = ""

\* C17: in every state of the builder, AddParameter or StartBasicBlock
\* without a function in progress, AddInstruction without a block in
\* progress, FinalizeProgram without a function or a block in progress,
\* AddStructType with a name already added or with no fields, and
\* StartFunction or StartBasicBlock with an empty name end the process and
\* leave the builder as it was.
C17_MisuseIsFatal ==
  [][(call_log' # call_log /\ Misuse(builder, Back(call_log')))
       => (pc' = "aborted" /\ builder' = builder)]_vars

\* a second AddStructType("foo", ...) ended the process while a function and
\* a block with an instruction were in progress
C17_Witness ==
  /\ pc = "aborted"
  /\ Back(call_log).call = "AddStructType"
  /\ Len(call_log) = MaxCalls - 1
  /\ builder.curr_bb_body_ # <<>>
  /\ "foo" \in DOMAIN builder.struct_types_


(***************************************************************************)
(* SpecTokenizer: a util::Tokenizer is constructed over an input and its   *)
(* public read operations are called until one of them is fatal.           *)
(***************************************************************************)

TokenInputs ==
  {"a[[b", "a->b-a", "a \na,a\n\nb", "\na b", "a [b\n,] b",
   "[a, b][]b", "a[\n]", "|a b||,|"}
TokenSpaces == {{" "}, {" ", "\n"}}
TokenDelimiters == {{"[", "[["}, {"-", "->"}, {","}, {"->"}}
TokenReserved == {{}, {"b"}}
TokenRaws == {<<>>, <<"[", "]">>, <<"|", "|">>}
TokenArgs == {"a", "b", "[[", "->", ",", "\n"}

TokenizerArgs ==
  [input : TokenInputs, whitespace : TokenSpaces,
   delimiters : TokenDelimiters, reserved_words : TokenReserved,
   raw : TokenRaws]

\* the call of the constructor with the arguments args
NewTokenizer(args) ==
  Tokenizer(args.input, args.whitespace, args.delimiters,
            args.reserved_words, args.raw)

\* Tokenizer::ErrorMessage
ErrorMessage(tk, err) ==
  "Syntax error on line " \o IntToString(tk.line_number_) \o ": " \o err

NoCall ==
  [op |-> "", str |-> "", before |-> <<>>, ok |-> TRUE, token |-> "",
   answer |-> FALSE, message |-> ""]

\* the tokenizer is constructed; an unmatched raw delimiter or an empty
\* token is a fatal CHECK of the constructor
TokenizerMade(args, made) ==
  /\ tk_input = args
  /\ tkz = made.tk
  /\ tk_call = NoCall
  /\ pc = IF made.ok THEN "tokens" ELSE "aborted"

InitTokenizer ==
  /\ \E args \in TokenizerArgs : TokenizerMade(args, NewTokenizer(args))
  /\ IdleObjects /\ IdleBuilder /\ IdleType /\ IdlePipe /\ IdleVisit
  /\ IdleTools

\* the call op(str) gave r; message is what its failed CHECK streams
TokenizerCalled(op, str, r, token, answer, message) ==
  /\ pc = "tokens"
  /\ tkz' = r.tk
  /\ tk_call' = [op |-> op, str |-> str, before |-> tkz, ok |-> r.ok,
                 token |-> token, answer |-> answer,
                 message |-> IF r.ok THEN "" ELSE message]
  /\ pc' = IF r.ok THEN "tokens" ELSE "aborted"
  /\ UNCHANGED tk_input
  /\ UNCHANGED <<typeVars, pipeVars, restVars, objectVars, builderVars>>

\* what the failed CHECK of ConsumeNextToken, or else the one of the caller,
\* streams for the token consumed
ConsumedMessage(r, err) ==
  IF r.val = "" THEN ErrorMessage(r.tk, "unexpected end of input")
  ELSE ErrorMessage(r.tk, err \o r.val)

ConsumeCalled(str, r) ==
  TokenizerCalled("Consume", str, r, r.val, FALSE,
                  ConsumedMessage(r, "unexpected token "))

CallConsume == \E str \in TokenArgs : ConsumeCalled(str, Consume(tkz, str))

QueryConsumeCalled(str, r) ==
  TokenizerCalled("QueryConsume", str, r, "", r.val,
                  ErrorMessage(r.tk, "unexpected end of input"))

CallQueryConsume ==
  \E str \in TokenArgs : QueryConsumeCalled(str, QueryConsume(tkz, str))

QueryNoConsumeCalled(str, r) ==
  TokenizerCalled("QueryNoConsume", str, r, "", r.val, "")

CallQueryNoConsume ==
  \E str \in TokenArgs : QueryNoConsumeCalled(str, QueryNoConsume(tkz, str))

ConsumeTokenCalled(r) ==
  TokenizerCalled("ConsumeToken", "", r, r.val, FALSE,
                  ConsumedMessage(r, "read delimiter or reserved word: "))

CallConsumeToken == ConsumeTokenCalled(ConsumeToken(tkz))

ConsumeRawCalled(r) ==
  TokenizerCalled("ConsumeRaw", "", r, r.val, FALSE,
                  ErrorMessage(r.tk, "unexpected end of input"))

CallConsumeRaw == ConsumeRawCalled(ConsumeRaw(tkz))

\* the CHECKs of ConsumeChar fail before the token is popped
ConsumeCharCalled(r) ==
  TokenizerCalled("ConsumeChar", "", r, r.val, FALSE,
                  IF r.val = ""
                  THEN ErrorMessage(r.tk, "unexpected end of input")
                  ELSE ErrorMessage(r.tk, "read delimiter or reserved word: "
                                          \o Back(r.tk.tokens_)))

CallConsumeChar == ConsumeCharCalled(ConsumeChar(tkz))

EndOfInputCalled(r) ==
  TokenizerCalled("EndOfInput", "", [ok |-> TRUE, tk |-> r.tk], "", r.val,
                  "")

CallEndOfInput == EndOfInputCalled(EndOfInput(tkz))

NextTokenizer ==
  \/ CallConsume
  \/ CallQueryConsume
  \/ CallQueryNoConsume
  \/ CallConsumeToken
  \/ CallConsumeRaw
  \/ CallConsumeChar
  \/ CallEndOfInput

SpecTokenizer == InitTokenizer /\ [][NextTokenizer]_vars

TokensTypeOK == pc \in {"tokens", "aborted"}


\* the tokens the constructor made of the input, in input order
InputTokens == Reverse(NewTokenizer(tk_input).tk.tokens_)

\* a is a proper prefix of b
ProperPrefix(a, b) == Len(a) < Len(b) /\ SubSeq(b, 1, Len(a)) = a

\* the delimiters that begin with another delimiter and occur in the input
LongerDelimiters ==
  {d \in tkz.delimiters_ :
     /\ \E short \in tkz.delimiters_ : ProperPrefix(short, d)
     /\ Find(tk_input.input, d, 0) # Npos}

\* C18: when one delimiter is a prefix of another, the longer delimiter that
\* occurs in an input without raw parts is emitted as one token, never as the
\* shorter delimiter followed by the rest.
C18_LongestDelimiter ==
  (pc = "tokens" /\ tk_input.raw = <<>>)
    => \A d \in LongerDelimiters : \E i \in DOMAIN InputTokens :
         InputTokens[i] = d


\* the index in tokens_ of the next token the read operations see (0 at the
\* end of the input): a pending "\n" is passed over when it is whitespace
NextIndex(tk) == PeekSkip(tk, Len(tk.tokens_))

\* the number of "\n" tokens among the last n tokens of tokens_
RECURSIVE NewlinesDropped(_, _)
NewlinesDropped(tokens, n) ==
  IF n = 0 THEN 0
  ELSE (IF Back(tokens) = "\n" THEN 1 ELSE 0)
       + NewlinesDropped(PopBack(tokens), n - 1)

\* tk read up to index k: the tokens after it are gone and the "\n" among
\* them are counted in the line number
ReadUpTo(tk, k) ==
  [tk EXCEPT !.tokens_ = SubSeq(@, 1, k),
             !.line_number_ =
               @ + NewlinesDropped(tk.tokens_, Len(tk.tokens_) - k)]

QueryCalled == pc = "tokens" /\ tk_call.op = "QueryConsume"
QueryNoConsumeWasCalled == pc = "tokens" /\ tk_call.op = "QueryNoConsume"
QueryMatched == Peek(tk_call.before, 0) = tk_call.str

RECURSIVE TokenEnd(_)
TokenStart(i) == Find(tk_input.input, InputTokens[i], TokenEnd(i - 1))
TokenEnd(i) == IF i = 0 THEN 0 ELSE TokenStart(i) + Len(InputTokens[i])

\* the offset of the token at index k of tokens_ (0: the end of the input)
OffsetOf(k) ==
  IF k = 0 THEN Len(tk_input.input)
  ELSE TokenStart(Len(InputTokens) - k + 1)

\* 1 plus the number of newline characters of the input before the offset
LineOf(offset) == 1 + CountChar(Substr(tk_input.input, 0, offset), "\n")

ReadOperations == {"Consume", "ConsumeToken", "ConsumeRaw", "ConsumeChar"}

ReadFailed == pc = "aborted" /\ tk_call.op \in ReadOperations

\* the index in tokens_ of the token the failed operation read
OffendingIndex ==
  IF tk_call.op = "ConsumeRaw" THEN Len(tk_call.before.tokens_)
  ELSE NextIndex(tk_call.before)

MessageOfLine(n) == "Syntax error on line " \o IntToString(n) \o ": "

StartsWith(s, prefix) == SubSeq(s, 1, Len(prefix)) = prefix

\* C20: a failed Consume, ConsumeToken, ConsumeRaw or ConsumeChar is fatal
\* with "Syntax error on line N", N being 1 plus the number of newline
\* characters of the input before the offending token, whether or not '\n'
\* is whitespace.
C20_ErrorLine ==
  ReadFailed =>
    StartsWith(tk_call.message, MessageOfLine(LineOf(OffsetOf(OffendingIndex))))

\* the same for inputs without raw parts in which '\n' is whitespace
C20_ErrorLineSkipped ==
  (ReadFailed /\ tk_input.raw = <<>> /\ "\n" \in tk_input.whitespace)
    => C20_ErrorLine

\* the same when the offending token is not "\n" and no raw payload was read
\* by anything but ConsumeRaw
C20_ErrorLineOfWord ==
  (/\ ReadFailed
   /\ tk_input.raw = <<>>
   /\ OffendingIndex > 0 => tk_call.before.tokens_[OffendingIndex] # "\n")
    => C20_ErrorLine


\* the tokens of text without raw parts, the raw delimiters being delimiters
UsualTokens(s) ==
  Tokenize(<<>>, s, tk_input.whitespace, tkz.delimiters_).tokens

RECURSIVE RawSplit(_)

\* the region from the left delimiter at p to the right delimiter at q
RawSplitRegion(s, p, q, rest) ==
  [ok |-> rest.ok,
   tokens |-> UsualTokens(Substr(s, 0, p))
              \o <<tk_input.raw[1],
                   Substr(s, p + Len(tk_input.raw[1]),
                          q - p - Len(tk_input.raw[1])),
                   tk_input.raw[2]>>
              \o rest.tokens]

RawSplitFrom(s, p, q) ==
  IF q = Npos THEN [ok |-> FALSE, tokens |-> <<>>]
  ELSE RawSplitRegion(s, p, q,
                      RawSplit(SubstrFrom(s, q + Len(tk_input.raw[2]))))

RawSplitAt(s, p) ==
  IF p = Npos THEN [ok |-> TRUE, tokens |-> UsualTokens(s)]
  ELSE RawSplitFrom(s, p, Find(s, tk_input.raw[2],
                               p + Len(tk_input.raw[1])))

\* what the claim requires of the text s: the first left delimiter and the
\* next right delimiter after it enclose a payload, and so on after it
RawSplit(s) == RawSplitAt(s, Find(s, tk_input.raw[1], 0))

RawConstructed == tk_call = NoCall /\ tk_input.raw # <<>>

RawAsRequired(required) ==
  /\ (pc = "aborted") = ~required.ok
  /\ required.ok => Reverse(tkz.tokens_) = required.tokens

\* C21: with raw delimiters (L, R), each L outside a raw region and the next
\* R after it give the three tokens L, payload, R, the payload being the
\* exact text between them, unsplit; the text outside is tokenized as usual;
\* an L without a following R makes the construction fatal.
C21_RawRegions == RawConstructed => RawAsRequired(RawSplit(tk_input.input))

\* two regions were read, one with whitespace and a delimiter in its payload
\* and one with an empty payload
C21_Witness ==
  /\ RawConstructed /\ pc = "tokens"
  /\ tk_input.delimiters = {","}
  /\ Reverse(tkz.tokens_) = <<"[", "a, b", "]", "[", "", "]", "b">>

\* an unmatched left delimiter ended the construction
C21_Unmatched ==
  /\ RawConstructed /\ pc = "aborted"
  /\ tk_input.input = "a[[b"


(***************************************************************************)
(* SpecParse: Instruction::FromString, BasicBlock::FromString and          *)
(* Program::FromString read a text written by hand, and the result is      *)
(* printed.                                                                *)
(***************************************************************************)

InstructionOf(helper) ==
  IF helper.ok THEN ReadInstruction(helper.h) ELSE Fatal(helper.h)

InstructionFromString(instruction, rtl) ==
  InstructionOf(FromStringHelper(instruction, rtl))

BasicBlockOf(helper) ==
  IF helper.ok THEN ReadBasicBlock(helper.h) ELSE Fatal(helper.h)

BasicBlockFromString(basic_block, rtl) ==
  BasicBlockOf(FromStringHelper(basic_block, rtl))

\* "$gep" without and with a field name
GepHeads == {"x:int* = $gep y:int* 42", "x:int* = $gep y:int* z:int"}
GepFields == {"", " foo", " int", " 7"}

\* what may follow in the text: nothing, an instruction, other tokens
GepFollowers ==
  {"", " p:int = $copy 42", " $ret 0", " $store s:int* 1", " $jump foo",
   " $branch 1 foo bar", " a:int* = $gep b:int* 42", " ,", " foo:"}

GepTexts ==
  {head \o field \o follower :
     head \in GepHeads, field \in GepFields, follower \in GepFollowers}

\* argument lists of "$phi", "$call" and "$icall"
ArgLists ==
  {"()", "(1)", "(1, y:int)", "(1,2,3)", "(1,)", "(1, y:int,)", "(,)",
   "(,1)", "(1,,2)", "(1 2)", "(1", "( )", "1)"}
ArgHeads == {"x:int = $phi", "x:int = $call foo", "x:int = $icall f:int[int]*"}
ArgTexts == {head \o list : head \in ArgHeads, list \in ArgLists}

InstructionTexts == GepTexts \cup ArgTexts

BlockText(lines) ==
  "\nbb:\n" \o Join([i \in 1..Len(lines) |-> "  " \o lines[i] \o "\n"], "")

\* blocks with geps, each followed by another instruction
GepLines ==
  {"x:int* = $gep y:int* z:int foo", "a:int* = $gep b:int* 42",
   "p:int = $copy 42", "$store s:int* 1"}
GepEnds == {"$ret 0", "$jump foo", "$branch 1 foo bar"}
BlockTexts ==
  {BlockText(Append(lines, end)) :
     lines \in SeqsUpTo(GepLines, 2), end \in GepEnds}

\* struct definitions before main
StructTexts ==
  {"struct foo {\n  f: int\n}\n\n", "struct foo {\n  f: int\n  g: int*\n}\n\n",
   "struct foo {\n  f: int\n  f: int\n}\n\n",
   "struct foo {\n  f: int\n  f: int*\n}\n\n",
   "struct foo {\n}\n\n", "struct bar {\n  f: int\n}\n\n"}
StructProgramTexts ==
  {first \o second \o FunctionText("main", "", <<>>) :
     first \in StructTexts, second \in StructTexts \cup {""}}

\* what the caller of FromString holds, and what its helper had left unread
\* when it returned
Read(kind, read) ==
  [ok |-> read.ok, kind |-> kind,
   val |-> IF read.ok THEN read.val ELSE <<>>,
   rest |-> IF read.ok THEN Reverse(read.h.tk_.tokens_) ELSE <<>>]

InitParse ==
  /\ pc = "source"
  /\ build_rtl \in BOOLEAN
  /\ printed \in InstructionTexts \cup BlockTexts \cup StructProgramTexts
  /\ built = NoProgram /\ parsed = NoParse /\ reprinted = ""
  /\ IdleType /\ IdleVisit /\ IdleUnits

FromStringReturned(kind, read) ==
  /\ parsed' = Read(kind, read)
  /\ pc' = IF read.ok THEN "read" ELSE "aborted"
  /\ UNCHANGED <<build_rtl, built, printed, reprinted,
                 typeVars, visitVars, unitVars>>

InstructionFromStringStep ==
  /\ pc = "source" /\ printed \in InstructionTexts
  /\ FromStringReturned("instruction",
                        InstructionFromString(printed, build_rtl))

BasicBlockFromStringStep ==
  /\ pc = "source" /\ printed \in BlockTexts
  /\ FromStringReturned("basic_block",
                        BasicBlockFromString(printed, build_rtl))

StructsFromStringStep ==
  /\ pc = "source" /\ printed \in StructProgramTexts
  /\ FromStringReturned("program", ProgramFromString(printed, build_rtl))

\* ToString on the result of FromString
ReadToString ==
  /\ pc = "read"
  /\ reprinted' =
       CASE parsed.kind = "instruction" -> InstructionToString(parsed.val)
         [] parsed.kind = "basic_block" -> BasicBlockToString(parsed.val)
         [] OTHER -> ProgramToString(parsed.val)
  /\ pc' = "shown"
  /\ UNCHANGED <<build_rtl, built, printed, parsed,
                 typeVars, visitVars, unitVars>>

NextParse ==
  \/ InstructionFromStringStep
  \/ BasicBlockFromStringStep
  \/ StructsFromStringStep
  \/ ReadToString

SpecParse == InitParse /\ [][NextParse]_vars

ParsePositions == pc \in {"source", "read", "aborted", "shown"}


\* the tokens of a text of one line, in input order
TokensOfText(text) ==
  Reverse(Tokenizer(text, whitespace_, delimiters_, reserved_,
                    <<>>).tk.tokens_)

GepHead == CHOOSE head \in GepHeads : StartsWith(printed, head)

\* the tokens of printed, and the number of them up to the index operand
GepTokens == TokensOfText(printed)
GepOperandsEnd == Len(TokensOfText(GepHead))

\* input remains after the index operand, its next token is neither reserved
\* nor a delimiter, and that token is not followed by ":"
GepHasField ==
  /\ GepOperandsEnd < Len(GepTokens)
  /\ GepTokens[GepOperandsEnd + 1] \notin reserved_ \cup delimiters_
  /\ GepOperandsEnd + 2 <= Len(GepTokens)
       => GepTokens[GepOperandsEnd + 2] # ":"

GepFieldTaken == IF GepHasField THEN 1 ELSE 0

\* the part of printed that is the instruction
GepOwnText ==
  IF GepHasField
  THEN GepHead \o " " \o GepTokens[GepOperandsEnd + 1]
  ELSE GepHead

GepWasRead == pc \in {"read", "aborted", "shown"} /\ printed \in GepTexts

\* the text has no instruction whose operands are read in the argument list
\* of one call, or the build evaluates such arguments left to right
OrderFree ==
  \/ ~build_rtl
  \/ Find(printed, "$store", 0) = Npos /\ Find(printed, "$branch", 0) = Npos

GepBlockWasRead ==
  /\ pc \in {"read", "aborted", "shown"}
  /\ printed \in BlockTexts
  /\ OrderFree

\* C22: "$gep" takes the token after its index operand as the field name if
\* and only if input remains, the token is neither reserved nor a delimiter
\* and is not followed by ":"; the tokens after the instruction are left
\* unread, and the instruction and the blocks with geps print back to their
\* text.
C22_GepField ==
  /\ GepWasRead =>
       /\ parsed.ok
       /\ parsed.val.inst_.field_name =
            (IF GepHasField THEN GepTokens[GepOperandsEnd + 1] ELSE "")
       /\ parsed.rest =
            SubSeq(GepTokens, GepOperandsEnd + GepFieldTaken + 1,
                   Len(GepTokens))
       /\ pc = "shown" => reprinted = GepOwnText \o "\n"
  /\ GepBlockWasRead =>
       /\ parsed.ok
       /\ pc = "shown" => reprinted = printed

\* a gep without a field name was read before another instruction, and one
\* with a field name
C22_Witness ==
  /\ pc = "shown"
  /\ printed = "x:int* = $gep y:int* 42 p:int = $copy 42"
  /\ parsed.val.inst_.field_name = ""
  /\ parsed.rest = <<"p", ":", "int", "=", "$copy", "42">>
  /\ reprinted = "x:int* = $gep y:int* 42\n"

C22_WitnessBlock ==
  /\ pc = "shown"
  /\ printed = "\nbb:\n  a:int* = $gep b:int* 42\n  $store s:int* 1\n"
               \o "  $ret 0\n"
  /\ reprinted = printed


\* the argument list written in printed, and the operands written in it
ArgListWritten == CHOOSE list \in ArgLists :
  \E head \in ArgHeads : printed = head \o list

\* the lists of operands separated by single commas, and the operands of each
WellFormedArgs ==
  [list \in {"()", "( )", "(1)", "(1, y:int)", "(1,2,3)"} |->
     CASE list = "(1)" -> <<IntOperand(1)>>
       [] list = "(1, y:int)" ->
            <<IntOperand(1), VarOperand(Variable(0, "y", IntType))>>
       [] list = "(1,2,3)" -> <<IntOperand(1), IntOperand(2), IntOperand(3)>>
       [] OTHER -> <<>>]

ArgsWereRead == pc \in {"read", "aborted", "shown"} /\ printed \in ArgTexts

ArgsOf(inst) == IF inst.op = "kPhi" THEN inst.ops ELSE inst.args

\* the operands without the identity of the Variable objects
OperandsWritten(ops) ==
  [i \in DOMAIN ops |->
     IF ops[i].is_var THEN <<ops[i].var.name, ops[i].var.type>>
     ELSE <<ops[i].int>>]

\* C28: an argument list of "$phi", "$call" or "$icall" is accepted only if
\* it is "()" or operands separated by single commas; a trailing comma or a
\* missing operand is a fatal syntax error; the args vector has one element
\* for each operand written.
C28_ArgLists ==
  ArgsWereRead =>
    /\ parsed.ok = (ArgListWritten \in DOMAIN WellFormedArgs)
    /\ parsed.ok =>
         OperandsWritten(ArgsOf(parsed.val.inst_))
           = OperandsWritten(WellFormedArgs[ArgListWritten])


\* the struct definitions written in printed
StructsWritten ==
  CHOOSE pair \in StructTexts \X (StructTexts \cup {""}) :
    printed = pair[1] \o pair[2] \o FunctionText("main", "", <<>>)

\* the name a struct definition gives, and whether it names a field twice
StructNameWritten(text) == IF Find(text, "struct bar", 0) = 0 THEN "bar"
                           ELSE "foo"
FieldTwice(text) ==
  text \in {"struct foo {\n  f: int\n  f: int\n}\n\n",
            "struct foo {\n  f: int\n  f: int*\n}\n\n"}

SameStructTwice(pair) ==
  pair[2] # "" /\ StructNameWritten(pair[1]) = StructNameWritten(pair[2])

StructsWereRead ==
  pc \in {"read", "aborted", "shown"} /\ printed \in StructProgramTexts

\* C24: Program::FromString is fatal whenever the text has two struct
\* definitions of the same name, whatever their fields, or a struct
\* definition with two fields of the same name.
C24_DuplicatesFatal ==
  (/\ StructsWereRead
   /\ \/ SameStructTwice(StructsWritten)
      \/ FieldTwice(StructsWritten[1])
      \/ FieldTwice(StructsWritten[2]))
    => pc = "aborted"

\* the same when no struct definition is empty
C24_DuplicatesFatalNonempty ==
  (/\ StructsWereRead
   /\ StructsWritten[1] # "struct foo {\n}\n\n"
   /\ StructsWritten[2] # "struct foo {\n}\n\n")
    => C24_DuplicatesFatal


ConsumeCharCalledLast == tk_call.op = "ConsumeChar"

\* the tokens left when the first character of the next token is taken
AfterChar(tk, next) ==
  SubSeq(tk.tokens_, 1, NextIndex(tk) - 1)
  \o (IF Len(next) > 1 THEN <<SubstrFrom(next, 1)>> ELSE <<>>)

CharTaken(before, next) ==
  /\ tk_call.ok = ~(next = "" \/ IsReserved(before, next))
  /\ tk_call.ok =>
       /\ tk_call.token = Char(next, 0)
       /\ tkz.tokens_ = AfterChar(before, next)

\* C25: ConsumeChar is fatal whenever the next token is a delimiter or a
\* reserved word, of any length, or the input is exhausted; otherwise it
\* returns the first character of the next token and leaves the rest of
\* that token, if any, as the next token.
C25_ConsumeChar ==
  ConsumeCharCalledLast
    => CharTaken(tk_call.before, Peek(tk_call.before, 0))

\* the same when every delimiter and reserved word is a single character
\* and no token begins with one without being one
C25_ConsumeCharSingle ==
  (/\ ConsumeCharCalledLast
   /\ Peek(tk_call.before, 0) # ""
   /\ IsReserved(tk_call.before, Peek(tk_call.before, 0))
        = IsReserved(tk_call.before, Char(Peek(tk_call.before, 0), 0)))
    => C25_ConsumeChar


\* which tokens of InputTokens are the left delimiter, the payload and the
\* right delimiter of a raw region
RECURSIVE PayloadAt(_)
RECURSIVE RightAt(_)
LeftAt(i) ==
  /\ tk_input.raw # <<>>
  /\ i >= 1
  /\ InputTokens[i] = tk_input.raw[1]
  /\ ~PayloadAt(i)
  /\ ~RightAt(i)
PayloadAt(i) == i >= 2 /\ LeftAt(i - 1)
RightAt(i) == i >= 3 /\ PayloadAt(i - 1)

\* the token at index k of tokens_ (no token was put back) is a "\n" that
\* the read operations pass over
PassedOver(tk, k) ==
  /\ tk.newline_is_whitespace_
  /\ tk.tokens_[k] = "\n"
  /\ ~PayloadAt(Len(InputTokens) - k + 1)

\* the index in tokens_ of the next token that remains to be consumed
RECURSIVE NextPending(_, _)
NextPending(tk, k) ==
  IF k >= 1 /\ PassedOver(tk, k) THEN NextPending(tk, k - 1) ELSE k

Pending(tk) == NextPending(tk, Len(tk.tokens_))

EndOfInputWasCalled == pc = "tokens" /\ tk_call.op = "EndOfInput"

NothingConsumed ==
  \/ EndOfInputWasCalled
  \/ QueryNoConsumeWasCalled
  \/ QueryCalled /\ ~tk_call.answer

\* C30: EndOfInput() returns true if and only if no token remains to be
\* consumed, newline tokens disregarded when '\n' is whitespace; it returns
\* false while a raw payload, even an empty one or one of newlines only, is
\* pending; EndOfInput, QueryConsume and QueryNoConsume never drop a pending
\* token.
C30_EndOfInput ==
  /\ EndOfInputWasCalled
       => tk_call.answer = (Pending(tk_call.before) = 0)
  /\ NothingConsumed
       => tkz.tokens_ = SubSeq(tk_call.before.tokens_, 1,
                               Pending(tk_call.before))

\* the same for inputs without raw parts
C30_EndOfInputNoRaw ==
  (pc = "tokens" /\ tk_input.raw = <<>>) => C30_EndOfInput

\* the same as long as no raw payload is the next token
C30_EndOfInputNoPayload ==
  (/\ pc = "tokens"
   /\ tk_call.op # ""
   /\ ~PayloadAt(Len(InputTokens) - Pending(tk_call.before) + 1))
    => C30_EndOfInput


(***************************************************************************)
(* SpecPrinter: one ToStringVisitor is used for several traversals, with   *)
(* calls of GetString in between                                           *)
(***************************************************************************)
MaxPrinted == 4

\* ToStringVisitor::GetString: the text of out_; out_ is a
\* std::ostringstream, whose clear() sets the error state of the stream to
\* goodbit and leaves the text alone
GetString(v) == [retval |-> v.out_, v |-> v]

InitPrinter ==
  /\ pc = "printer"
  /\ built \in Visitable
  /\ tsv = NewToStringVisitor
  /\ strings = <<>>
  /\ dbg_out = <<>> /\ analysis = <<>>
  /\ build_rtl = FALSE /\ printed = "" /\ parsed = NoParse /\ reprinted = ""
  /\ IdleType /\ IdleVisit /\ IdleObjects /\ IdleBuilder /\ IdleTokens

\* a traversal of what (the program, or the function of that name) makes
\* calls on the visitor
PrinterVisited(what, calls) ==
  /\ pc = "printer"
  /\ Len(strings) < MaxPrinted
  /\ tsv' = ToStringVisitorRun(tsv, calls)
  /\ strings' = Append(strings, [op |-> "Visit", what |-> what, str |-> ""])
  /\ UNCHANGED <<pc, dbg_out, analysis, typeVars, pipeVars, visitVars,
                 objectVars, builderVars, tokenVars>>

PrinterVisitProgram == PrinterVisited("", ProgramVisit(built.val))

PrinterVisitFunction ==
  \E name \in DOMAIN built.val.functions_ :
    PrinterVisited(name, FunctionVisit(built.val.functions_[name]))

PrinterGetString ==
  /\ pc = "printer"
  /\ Len(strings) < MaxPrinted
  /\ tsv' = GetString(tsv).v
  /\ strings' = Append(strings, [op |-> "GetString", what |-> "",
                                 str |-> GetString(tsv).retval])
  /\ UNCHANGED <<pc, dbg_out, analysis, typeVars, pipeVars, visitVars,
                 objectVars, builderVars, tokenVars>>

NextPrinter ==
  \/ PrinterVisitProgram
  \/ PrinterVisitFunction
  \/ PrinterGetString

SpecPrinter == InitPrinter /\ [][NextPrinter]_vars

\* the text a traversal writes, as a visitor of its own shows it
TextOfVisit(e) ==
  IF e.what = "" THEN ProgramToString(built.val)
  ELSE FunctionToString(built.val.functions_[e.what])

\* the text of the traversals made after the last GetString before the
\* entry at i of strings, up to that entry
RECURSIVE VisitedSince(_)
VisitedSince(i) ==
  IF i = 0 \/ strings[i].op = "GetString" THEN ""
  ELSE VisitedSince(i - 1) \o TextOfVisit(strings[i])

\* the text of all the traversals up to the entry at i of strings
RECURSIVE VisitedUpTo(_)
VisitedUpTo(i) ==
  IF i = 0 THEN ""
  ELSE VisitedUpTo(i - 1)
       \o (IF strings[i].op = "Visit" THEN TextOfVisit(strings[i]) ELSE "")

GetStringAt(i) == i \in DOMAIN strings /\ strings[i].op = "GetString"

\* C26: GetString returns the text accumulated so far and resets the
\* visitor: every GetString returns the text of the traversals made since
\* the previous GetString and nothing that was returned before, so a second
\* GetString with no visit in between returns the empty string.
C26_GetStringResets ==
  pc = "printer" =>
    \A i \in DOMAIN strings :
      GetStringAt(i) => strings[i].str = VisitedSince(i - 1)

\* what holds of the code: the first GetString returns the accumulated text
C26_FirstGetString ==
  pc = "printer" =>
    \A i \in DOMAIN strings :
      (GetStringAt(i) /\ \A j \in 1..(i - 1) : ~GetStringAt(j))
        => strings[i].str = VisitedSince(i - 1)

\* what holds of the code: every GetString returns the text of all the
\* traversals made on the visitor
C26_GetStringKeeps ==
  pc = "printer" =>
    \A i \in DOMAIN strings :
      GetStringAt(i) => strings[i].str = VisitedUpTo(i - 1)

\* two calls of GetString in a row, after a traversal
C26_Twice ==
  /\ pc = "printer"
  /\ Len(strings) = 3
  /\ strings[1].op = "Visit"
  /\ GetStringAt(2)
  /\ GetStringAt(3)


(***************************************************************************)
(* SpecDebug: Program::Visit on a DebugVisitor that wraps a visitor        *)
(* recording the callbacks it receives                                     *)
(***************************************************************************)
\* the name the DebugVisitor prints for a callback
DebugName(c) ==
  IF c.cb = "VisitInst"
  THEN "VisitInst(" \o Substr(c.kind, 0, Len(c.kind) - 4) \o ")"
  ELSE c.cb

\* the members of IrVisitor that DebugVisitor overrides; the others are the
\* empty functions of IrVisitor
DebugOverrides(c) ==
  \/ c.cb \in {"VisitProgram", "VisitProgramPost", "VisitStructType",
               "VisitFunction", "VisitFunctionPost", "VisitBasicBlock",
               "VisitBasicBlockPost"}
  \/ c.cb = "VisitInst" /\ c.kind # "Instruction"

InitDebug ==
  /\ pc = "debug"
  /\ built \in Visitable
  /\ LET calls == ProgramVisit(built.val)
     IN pending = [i \in 1..Len(calls) |-> Received(calls[i])]
  /\ order_ = <<>>
  /\ dbg_out = <<>>
  /\ tsv = <<>> /\ strings = <<>> /\ analysis = <<>>
  /\ build_rtl = FALSE /\ printed = "" /\ parsed = NoParse /\ reprinted = ""
  /\ IdleType /\ IdleObjects /\ IdleBuilder /\ IdleTokens

\* the traversal calls cb on the DebugVisitor; forwards says whether the
\* DebugVisitor overrides it: it then writes a line, calls the same member of
\* visitor_ and writes another line
DebugCalled(cb, kinds, forwards) ==
  /\ pc = "debug"
  /\ pending # <<>>
  /\ Head(pending).cb = cb
  /\ Head(pending).kind \in kinds
  /\ forwards = DebugOverrides(Head(pending))
  /\ order_' = IF forwards THEN Append(order_, Head(pending)) ELSE order_
  /\ dbg_out' = IF forwards
                THEN dbg_out \o <<"entering " \o DebugName(Head(pending)),
                                  "exiting " \o DebugName(Head(pending))>>
                ELSE dbg_out
  /\ pending' = Tail(pending)
  /\ pc' = IF Tail(pending) = <<>> THEN "debugged" ELSE "debug"
  /\ UNCHANGED <<tsv, strings, analysis, typeVars, pipeVars, objectVars,
                 builderVars, tokenVars>>

DebugVisitProgram == DebugCalled("VisitProgram", {""}, TRUE)
DebugVisitProgramPost == DebugCalled("VisitProgramPost", {""}, TRUE)
DebugVisitStructType == DebugCalled("VisitStructType", {""}, TRUE)
DebugVisitFunction == DebugCalled("VisitFunction", {""}, TRUE)
DebugVisitFunctionPost == DebugCalled("VisitFunctionPost", {""}, TRUE)
DebugVisitBasicBlock == DebugCalled("VisitBasicBlock", {""}, TRUE)
DebugVisitBasicBlockPost == DebugCalled("VisitBasicBlockPost", {""}, TRUE)
DebugVisitInstKind == DebugCalled("VisitInst", KindNames, TRUE)
\* IrVisitor::VisitInst(const Instruction&), which DebugVisitor inherits
DebugVisitInst == DebugCalled("VisitInst", {"Instruction"}, FALSE)
\* VisitInstPost, which DebugVisitor does not define
DebugVisitInstPost == DebugCalled("VisitInstPost", {"Instruction"}, FALSE)

NextDebug ==
  \/ DebugVisitProgram
  \/ DebugVisitProgramPost
  \/ DebugVisitStructType
  \/ DebugVisitFunction
  \/ DebugVisitFunctionPost
  \/ DebugVisitBasicBlock
  \/ DebugVisitBasicBlockPost
  \/ DebugVisitInstKind
  \/ DebugVisitInst
  \/ DebugVisitInstPost

SpecDebug == InitDebug /\ [][NextDebug]_vars

\* the callbacks a visitor receives when the program is traversed with it
DirectOrder ==
  LET calls == ProgramVisit(built.val)
  IN [i \in 1..Len(calls) |-> Received(calls[i])]

RECURSIVE OverriddenOf(_)
OverriddenOf(calls) ==
  IF calls = <<>> THEN <<>>
  ELSE (IF DebugOverrides(Head(calls)) THEN <<Head(calls)>> ELSE <<>>)
       \o OverriddenOf(Tail(calls))

\* C29: traversing with DebugVisitor(v, out) invokes on v exactly the same
\* sequence of callbacks, with the same arguments, as traversing with v
\* directly, the generic VisitInst(const Instruction&) and the
\* post-instruction callback included.
C29_SameCallbacks == pc = "debugged" => order_ = DirectOrder

\* what holds of the code: v receives the callbacks other than the generic
\* VisitInst and VisitInstPost, in the order of the direct traversal, and out
\* receives an entering and an exiting line for each of them
C29_OverriddenForwarded ==
  pc = "debugged" =>
    /\ order_ = OverriddenOf(DirectOrder)
    /\ Len(dbg_out) = 2 * Len(order_)
    /\ \A i \in DOMAIN order_ :
         /\ dbg_out[2 * i - 1] = "entering " \o DebugName(order_[i])
         /\ dbg_out[2 * i] = "exiting " \o DebugName(order_[i])

\* a traversal of a program with an instruction has ended
C29_Traversed ==
  /\ pc = "debugged"
  /\ \E i \in DOMAIN DirectOrder : DirectOrder[i].cb = "VisitInstPost"


(***************************************************************************)
(* SpecAnalysis: analysis::trivial_example::InstToVars on a program        *)
(***************************************************************************)
\* soln_[inst].insert(var) for each var inserted; with none, no entry is made
InsertVars(soln, inst, inserted) ==
  IF inserted = {} THEN soln
  ELSE [k \in DOMAIN soln \cup {inst} |->
          (IF k \in DOMAIN soln THEN soln[k] ELSE {})
          \cup (IF k = inst THEN inserted ELSE {})]

\* the variables the VisitInst overload of GetInstVarsVisitor inserts for an
\* instruction (the variant i)
InsertedVars(i) ==
  CASE i.op \in {"kArith", "kCmp"} ->
         Range(OperandVars(i.op1)) \cup Range(OperandVars(i.op2))
    [] i.op = "kPhi" -> Range(OperandsVars(i.ops))
    [] i.op = "kCopy" -> Range(OperandVars(i.rhs))
    [] i.op = "kAlloc" -> {}
    [] i.op = "kAddrof" -> {i.rhs}
    [] i.op = "kLoad" -> {i.src}
    [] i.op = "kStore" -> {i.dst} \cup Range(OperandVars(i.value))
    [] i.op = "kGep" -> {i.src_ptr} \cup Range(OperandVars(i.index))
    [] i.op = "kSelect" ->
         Range(OperandVars(i.condition)) \cup Range(OperandVars(i.true_op))
         \cup Range(OperandVars(i.false_op))
    [] i.op = "kCall" -> Range(OperandsVars(i.args))
    [] i.op = "kICall" -> Range(OperandsVars(i.args))
    [] i.op = "kRet" -> Range(OperandVars(i.retval))
    [] i.op = "kJump" -> {}
    [] i.op = "kBranch" -> Range(OperandVars(i.condition))

\* one callback of GetInstVarsVisitor; v = [soln_, curr_inst_]
GetInstVarsVisitorCall(v, c) ==
  CASE c.cb = "VisitInst" /\ c.kind = "Instruction" ->
         [v EXCEPT !.curr_inst_ = c.arg.self]
    [] c.cb = "VisitInst" /\ c.kind # "Instruction" ->
         [v EXCEPT !.soln_ =
            InsertVars(@, v.curr_inst_, InsertedVars(c.arg.inst_))]
    [] OTHER -> v

RECURSIVE GetInstVarsVisitorRun(_, _)
GetInstVarsVisitorRun(v, calls) ==
  IF calls = <<>> THEN v
  ELSE GetInstVarsVisitorRun(GetInstVarsVisitorCall(v, Head(calls)),
                             Tail(calls))

NewGetInstVarsVisitor == [soln_ |-> EmptyMap, curr_inst_ |-> NullPtr]

\* GetInstVarsVisitor::GetSoln
GetSoln(v, function) ==
  GetInstVarsVisitorRun([v EXCEPT !.soln_ = EmptyMap],
                        FunctionVisit(function)).soln_

\* InstToVars::Analyze; program_[function_name] is fatal for an unknown name
Analyze(program_, function_name) ==
  IF function_name \notin DOMAIN program_.functions_
  THEN [ok |-> FALSE, val |-> EmptyMap]
  ELSE [ok |-> TRUE,
        val |-> GetSoln(NewGetInstVarsVisitor,
                        program_.functions_[function_name])]

MaxAnalysisBody == 2

\* the instructions of the fixture and instructions with variable operands
AnalysisCodes ==
  (FixtureCodes \ {"ret", "jump", "branch"})
  \cup {"arith_xy", "arith_xx", "cmp_y1", "phi_xy", "store_y", "gep_y",
        "select_yx", "call_xp", "icall_y", "icall_1", "copy_7"}

\* main with one block, or with a branch on a variable to a second block;
\* and the two functions of IrTest.ToStringTest
AnalysisInputs ==
  {Input(FooStruct,
         <<Fun("main", <<>>, <<Block("entry", Append(codes, last))>>)>>) :
     codes \in SeqsUpTo(AnalysisCodes, MaxAnalysisBody),
     last \in {"ret", "ret_foo"}}
  \cup {Input(FooStruct,
              <<Fun("main", <<>>,
                    <<Block("entry", <<code, "branch_y">>),
                      Block("foo", <<code, "ret_foo">>)>>)>>) :
          code \in AnalysisCodes}
  \cup {TwoFunctions}

Analyzable ==
  {r \in {MakeProgram(in.struct_types, in.functions) :
            in \in AnalysisInputs} : r.ok}

NoAnalysis == <<>>

\* InstToVars analysis(program) on a program the caller holds
InitAnalysis ==
  /\ pc = "analysis"
  /\ built \in Analyzable
  /\ analysis = NoAnalysis
  /\ tsv = <<>> /\ strings = <<>> /\ dbg_out = <<>>
  /\ build_rtl = FALSE /\ printed = "" /\ parsed = NoParse /\ reprinted = ""
  /\ IdleType /\ IdleVisit /\ IdleObjects /\ IdleBuilder /\ IdleTokens

\* analysis.Analyze(function_name)
AnalyzeStep ==
  /\ pc = "analysis"
  /\ \E function_name \in DOMAIN built.val.functions_ \cup {"nope"} :
       /\ analysis' = [function_name |-> function_name,
                       soln |-> Analyze(built.val, function_name).val]
       /\ pc' = IF Analyze(built.val, function_name).ok THEN "analysis"
                ELSE "aborted"
  /\ UNCHANGED <<tsv, strings, dbg_out, typeVars, pipeVars, visitVars,
                 objectVars, builderVars, tokenVars>>

NextAnalysis == AnalyzeStep

SpecAnalysis == InitAnalysis /\ [][NextAnalysis]_vars

\* the Instruction objects of a function
InstructionsOf(f) ==
  UNION {Range(f.body_[l].body_) : l \in DOMAIN f.body_}

\* the variable operands of an instruction other than the assigned lhs
VariableOperands(i) ==
  Range(UsedVars(i)) \cup (IF i.op = "kStore" THEN {i.dst} ELSE {})

Analyzed == pc = "analysis" /\ analysis # NoAnalysis

AnalyzedInsts == InstructionsOf(built.val.functions_[analysis.function_name])

\* C23: Analyze(f) returns a map whose keys are exactly the instructions of
\* f that read at least one variable, each mapped to exactly the set of the
\* variables it reads (all its variable operands other than the assigned
\* lhs, for every instruction kind).
C23_InstToVars ==
  Analyzed =>
    /\ DOMAIN analysis.soln =
         {inst.self : inst \in {i \in AnalyzedInsts :
                                  VariableOperands(i.inst_) # {}}}
    /\ \A inst \in AnalyzedInsts :
         inst.self \in DOMAIN analysis.soln =>
           analysis.soln[inst.self] = VariableOperands(inst.inst_)

\* what holds of the code: the same for every instruction but $icall, whose
\* entry holds the variables among its arguments and not the function pointer
C23_InstToVarsButICall ==
  Analyzed =>
    \A inst \in AnalyzedInsts :
      LET read == IF inst.inst_.op = "kICall"
                  THEN VariableOperands(inst.inst_) \ {inst.inst_.func_ptr}
                  ELSE VariableOperands(inst.inst_)
      IN IF read = {} THEN inst.self \notin DOMAIN analysis.soln
         ELSE /\ inst.self \in DOMAIN analysis.soln
              /\ analysis.soln[inst.self] = read

\* a function with instructions that read one variable, two, and none was
\* analyzed
C23_Analyzed ==
  /\ Analyzed
  /\ \E a, b, c \in AnalyzedInsts :
       /\ a.inst_.op = "kArith" /\ a.self \in DOMAIN analysis.soln
       /\ Cardinality(analysis.soln[a.self]) = 2
       /\ b.inst_.op = "kStore" /\ b.self \in DOMAIN analysis.soln
       /\ Cardinality(analysis.soln[b.self]) = 2
       /\ c.inst_.op = "kRet" /\ c.self \notin DOMAIN analysis.soln


(***************************************************************************)
(* SpecVerify: the Program constructor on programs whose instructions      *)
(* fail checks of the verifier                                             *)
(***************************************************************************)
MaxOffending == 2

\* instructions that fail checks of VerifyVisitor: a type error whose
\* message shows the instruction, the index of a gep that is no int, an
\* assignment to a global
OffendingCodes ==
  {"arith_p", "arith_ppp", "cmp_p", "phi_p", "copy_p", "alloc_i", "addrof_i",
   "load_i", "store_i", "store_pp", "gep_i", "gep_p", "select_p", "icall_i",
   "copy@"}

\* main with one block of up to MaxOffending instructions, offending or not,
\* and a ret of the right type or of a wrong one
VerifyInputs ==
  {Input(FooStruct,
         <<Fun("main", <<>>, <<Block("entry", Append(codes, last))>>)>>) :
     codes \in SeqsUpTo(OffendingCodes \cup {"copy", "load"}, MaxOffending),
     last \in {"ret", "ret_p"}}

InitVerify ==
  /\ pc = "start"
  /\ build_rtl = FALSE
  /\ built = NoProgram /\ printed = "" /\ parsed = NoParse /\ reprinted = ""
  /\ IdleType /\ IdleVisit /\ IdleUnits

\* Program::Program on an input of the caller, which runs VerifyIr
VerifyConstruct ==
  /\ pc = "start"
  /\ \E in \in VerifyInputs :
       Constructed(MakeProgram(in.struct_types, in.functions))
  /\ UNCHANGED <<build_rtl, printed, parsed, reprinted,
               typeVars, visitVars, unitVars>>

NextVerify == VerifyConstruct

SpecVerify == InitVerify /\ [][NextVerify]_vars

\* the number of checks an instruction of the inputs fails
FailedChecksOf(i) ==
  IF \A code \in OffendingCodes \cup {"ret_p"} : InstOf(code) # i THEN 0
  ELSE IF i = InstOf("arith_ppp") THEN 3
  ELSE IF i = InstOf("gep_i") THEN 2
  ELSE 1

RECURSIVE FailedChecksIn(_)
FailedChecksIn(body) ==
  IF body = <<>> THEN 0
  ELSE FailedChecksOf(Head(body).inst_) + FailedChecksIn(Tail(body))

\* the instructions of the program in built
EntryBody == built.val.functions_["main"].body_["entry"].body_

\* the number of checks the program in built fails
FailedChecks == FailedChecksIn(EntryBody)

\* the type errors of an instruction whose message is followed by std::endl
\* after the text of the instruction
EndlAfterInstruction(i) ==
  IF i.op \in {"kLoad", "kStore"} \/ i \in {InstOf("gep_p"), InstOf("copy@")}
  THEN 0
  ELSE FailedChecksOf(i)

RECURSIVE EndlAfterInstructionIn(_)
EndlAfterInstructionIn(body) ==
  IF body = <<>> THEN 0
  ELSE EndlAfterInstruction(Head(body).inst_)
       + EndlAfterInstructionIn(Tail(body))

WasVerified == pc \in {"constructed", "refused"}

RECURSIVE NonEmptyLines(_)
NonEmptyLines(lines) ==
  IF lines = <<>> THEN 0
  ELSE (IF Head(lines) = "" THEN 0 ELSE 1) + NonEmptyLines(Tail(lines))

EndsWithNewline(text) ==
  text = "" \/ Char(text, Len(text) - 1) = "\n"

\* C27: every failed verifier check appends exactly one newline-terminated
\* line to the error text, for every check of every instruction kind, load
\* and store included: the number of lines of the text is the number of
\* failed checks, every line holds a message, and the text ends with a
\* newline.
C27_OneLinePerFailedCheck ==
  WasVerified =>
    /\ Len(Lines(built.errs)) = FailedChecks
    /\ \A k \in DOMAIN Lines(built.errs) : Lines(built.errs)[k] # ""
    /\ EndsWithNewline(built.errs)

\* what holds of the code: no two messages share a line and the text ends
\* with a newline; every message that shows the instruction and is followed
\* by std::endl is followed by an empty line; the messages of load and store
\* and those that do not show the instruction are one line each
C27_LinesOfFailedChecks ==
  WasVerified =>
    /\ NonEmptyLines(Lines(built.errs)) = FailedChecks
    /\ Len(Lines(built.errs))
         = FailedChecks
           + EndlAfterInstructionIn(EntryBody)
    /\ EndsWithNewline(built.errs)

\* the programs whose failed checks are those of load and store, or have
\* messages that do not show the instruction, get one line for each
C27_OneLineWithoutEndl ==
  (WasVerified /\ EndlAfterInstructionIn(EntryBody) = 0)
    => C27_OneLinePerFailedCheck

\* a load and a store with type errors were refused
C27_LoadStoreRefused ==
  /\ pc = "refused"
  /\ FailedChecks = 2
  /\ \E i, j \in 1..2 :
       /\ EntryBody[i].inst_.op = "kLoad"
       /\ EntryBody[j].inst_.op = "kStore"

=============================================================================
